---- MODULE Spec2Model ----
(***************************************************************************)
(* Model of the marble game's runtime core: PathGenerator (procedural      *)
(* path), ChunkManager (streaming of path chunks) and MarblePhysics.       *)
(*                                                                         *)
(* Geometry.  World positions are points <<x, z>> of the horizontal plane  *)
(* (the code's THREE.Vector3 without its height y, which the streaming     *)
(* code only meets inside distances of hundreds of units).  Distances are  *)
(* compared through their squares, so no square root is taken.  A heading  *)
(* is one of the four axis directions; forward is <<0, -1>> as in the      *)
(* code ("negative Z is forward").                                         *)
(***************************************************************************)
EXTENDS Integers, Sequences, FiniteSets, TLC

VARIABLES
    cmVersion,      \* which ChunkManager of ChunkManager.ts: "earlier" (l.4-280) or "current" (l.286-590)
    activeChunks,   \* ChunkManager.activeChunks: the Map's values in insertion order
    nextChunkId,    \* ChunkManager.nextChunkId
    pathGenerator,  \* the PathGenerator instance owned by the ChunkManager (its cursor)
    initialized,    \* initialize() has been called
    marblePosition, \* the position handed to the last update()
    marbleArc,      \* arc position of the marble on the generated path (forward-run driver)
    generated,      \* history: every chunk generateChunk returned, in order
    lastOp,         \* the last ChunkManager operation that ran
    scene,          \* the chunk meshes in the THREE.Scene, as <<chunk id, "path" or "terrain">>
    lastOutcomes,   \* how each generateNextChunk call of that operation was to end
    faults,         \* how many generateNextChunk calls have ended in an exception
    marbleChunk,    \* history: id of the chunk getPathAtPosition gave for the marble
                    \* when the last update() came to its memory-cap phase (-1: none)
    capEvicted,     \* history: ids of the chunks that memory-cap phase unloaded
    requested,      \* history: the id of every generateNextChunk call, in order
    beforeOp,       \* history: the ids of the resident chunks, in insertion order,
                    \* and the counter when the last operation was called
    beforeCap       \* history: the ids of the resident chunks when the last update()
                    \* came to its memory-cap phase

cmVars == <<cmVersion, activeChunks, nextChunkId, pathGenerator, initialized,
            marblePosition, marbleArc, generated, lastOp, scene, lastOutcomes, faults,
            marbleChunk, capEvicted, requested, beforeOp, beforeCap>>

VARIABLES
    genVariant,     \* which PathGenerator class: "current" (PathGenerator.ts l.22-371) or "gap" (gap-enabled)
    mathRandom,     \* the global Math.random: the native one, or the closure a constructor installed
    gens,           \* the PathGenerator instances of one process, by instance number
    seedArg,        \* the seed argument each instance was constructed with
    out,            \* the chunks each instance has returned, in order
    solo,           \* reference: each instance run with a stream of its own
    soloOut,        \* the chunks of the reference runs
    gapWalk,        \* one call of the gap-enabled createPathWithGaps, pass by pass
    lone            \* one PathGenerator asked for chunk after chunk, with the
                    \* last call's id, result and the generator as it was before

genVars == <<genVariant, mathRandom, gens, seedArg, out, solo, soloOut, gapWalk, lone>>

VARIABLES
    mpVersion,      \* which MarblePhysics of MarblePhysics.ts: "direct" (l.10-398) or "auto" (l.409-858)
    mp,             \* the MarblePhysics object's fields and its marble mesh's position and rotation
    now,            \* Date.now(), in ms
    calls,          \* how many MarblePhysics operations have been called so far
    mpOp,           \* the last MarblePhysics operation that ran, with its arguments
    pre,            \* history: mp, the fall time and the time since the fall began, as
                    \* they were when that operation began
    fallBegan,      \* history: Date.now() at the startFalling() that began the present
                    \* or the last fall, the marble not falling before it
    jumpAge,        \* history: the delta time of the rolling updates since the last
                    \* jump, -1 when there was none since the last reset
    jumpGap,        \* history: when the last operation started a jump, jumpAge at
                    \* that jump; else -1
    saveAge,        \* history: the delta time of the updates since update last saved
                    \* a checkpoint, -1 when it has saved none
    saveGap         \* history: when the last operation was an update that saved a
                    \* checkpoint, saveAge at that save; else -1

mpVars == <<mpVersion, mp, now, calls, mpOp, pre, fallBegan, jumpAge, jumpGap,
           saveAge, saveGap>>

VARIABLES
    ge,             \* the GameEngine's isRunning and lastTime (performance.now(), in ms,
                    \* taken as the clock of Date.now()), and the page's document.hidden
    pausedFall      \* history: the ms that passed with the engine paused since the
                    \* last startFalling(), the marble falling

geVars == <<ge, pausedFall>>

VARIABLES
    directionCall   \* the last getPathDirectionAtPosition call: its position, the id
                    \* of the chunk it went by (-1: none), the index of that chunk's
                    \* closest point and the direction returned

VARIABLES
    im,             \* the InputManager object's fields, and the due times of its
                    \* pending setTimeout callbacks in the order they were set
    imOp            \* history: the last InputManager operation; what getInput
                    \* returned; the time and value of the last steering tap and
                    \* whether the page was hidden since; the time of the last
                    \* accepted centre tap, and for a centre tap the time since
                    \* then (-1: none before) and whether it was accepted; the
                    \* centre taps accepted and refused since the last getInput,
                    \* and those the last getInput found

imVars == <<im, imOp>>

\* what the InputManager's operations leave alone beside the ChunkManager and
\* the generators; they read the clock now
inputFrame == <<mpVersion, mp, calls, mpOp, pre, fallBegan, jumpAge, jumpGap,
                saveAge, saveGap, geVars, directionCall>>

\* the variables of the application around the physics
appVars == <<geVars, directionCall, imVars>>

-----------------------------------------------------------------------------
(* Bounds of the model *)

\* chunk ids are issued while nextChunkId stays within this bound
MaxChunkId == 14
\* update() is given the positions <<0, -k * PositionStride>>, k in 0..MaxPositionIndex
MaxPositionIndex == 5
PositionStride == 500
\* in a forward run the marble advances 1..MaxStep units of arc per tick
MaxStep == 50
\* in a fast forward run the marble advances MinStride..MaxStep units per
\* tick, and chunk ids are issued while nextChunkId stays within MaxFastChunkId
MinStride == 46
MaxFastChunkId == 23
\* the lone PathGenerator is asked for at most this many chunks
MaxLoneChunks == 52
\* each PathGenerator instance of the generator runs is asked for at most this many chunks
MaxGenChunks == 2
\* a run of the MarblePhysics with jumps has at most this many calls
MaxJumpCalls == 6
\* at most this many generateNextChunk calls of a run end in an exception
MaxFaults == 1
\* at most this many MarblePhysics operations are called in a run
MaxCalls == 5
\* update is given a delta time of 1/60 s or of MaxDt60/60 s (a slow frame)
MaxDt60 == 3
\* Date.now() when the MarblePhysics is constructed, and how far it runs on
StartMs == 10000
MaxElapsedMs == 3001

-----------------------------------------------------------------------------
(* Program constants *)

chunkLength == 200
segmentCount == 50
difficultyDistance == 10000

maxActiveChunksEarlier == 5
chunkLoadDistanceEarlier == 400
chunkUnloadDistanceEarlier == 600
initialChunksEarlier == 3
chunksPerLoadEarlier == 1

maxActiveChunks == 10
chunkLoadDistance == 600
chunkUnloadDistance == 1000
initialChunks == 8
chunksPerLoad == 3

\* the seed of the spec's scenario: x + noiseOffsetX stays near 0, every
\* sin(x * ...) factor of the curvature vanishes and the path runs straight
SeedStraight == 42
\* a seed whose curvature field keeps one sign: the path coils
SeedCoil == 134364

Seeds == {SeedStraight, SeedCoil}

\* seed arguments of the constructor; 0 is the falsy value of "seed || ..."
SeedArgs == {0} \cup Seeds

\* Math.random() * 1000000: a draw is kept in thousandths, u stands for u / 1000
RandomResolution == 1000
SeedScale == 1000000

-----------------------------------------------------------------------------
(* Vectors *)

Abs(n) == IF n < 0 THEN -n ELSE n
Min(a, b) == IF a <= b THEN a ELSE b
Max(a, b) == IF a >= b THEN a ELSE b

VAdd(p, q) == <<p[1] + q[1], p[2] + q[2]>>
VScale(p, k) == <<p[1] * k, p[2] * k>>

\* THREE.Vector3.distanceTo, squared
DistSq(p, q) == (p[1] - q[1]) * (p[1] - q[1]) + (p[2] - q[2]) * (p[2] - q[2])
\* THREE.Vector3.length, squared
LengthSq(p) == DistSq(p, <<0, 0>>)

\* applyAxisAngle(new Vector3(0, 1, 0), q * 90 degrees): x' = z sin, z' = -x sin
RotateY(d, q) ==
    IF q = 0 THEN d
    ELSE IF q = 1 THEN <<d[2], -d[1]>>
    ELSE <<-d[2], d[1]>>

-----------------------------------------------------------------------------
(* PathGenerator *)

\* getCurvatureAtWorldPosition: the sign of the large-curve term
\* sin(x * s) * cos(z * s) * 0.25 at the noise offsets the seed selects
\* (x = seed * 0.001, z = seed * 0.0013, s = 0.0005 * 2 * pi): negligible
\* for a small seed, positive until cos changes sign at z = 500, negative
\* after.  The turn of a chunk is lumped on its first step (a quarter turn).
getCurvatureAtWorldPosition(seed, i) ==
    IF i # 0 \/ seed < 10000 THEN 0
    ELSE IF seed * 13 < 5000000 THEN 1 ELSE -1

\* getCurvatureAtDistance (gap-enabled generator): 0.5 sin(d / 1000) + ...
\* keeps its sign over the first kilometres; a quarter turn every third chunk
getCurvatureAtDistance(distance, i) ==
    IF i = 0 /\ (distance \div chunkLength) % 3 = 2 THEN 1 ELSE 0

\* seededRandom(seed): the closure's hidden x, here a congruential stream
\* over the thousandths (the code iterates x = sin(x) * 10000)
seededRandom(seed) == [native |-> FALSE, x |-> (seed * 7 + 3) % RandomResolution]

\* one call of a seeded Math.random: the value returned and the closure after
NextRandom(rnd) ==
    LET x == (rnd.x * 21 + 7) % RandomResolution
    IN [value |-> x, rnd |-> [rnd EXCEPT !.x = x]]

\* the native Math.random of the platform
NativeRandom == [native |-> TRUE, x |-> 0]
\* values a native Math.random() may return, in thousandths
NativeDraws == {134, 500}

\* constructor(seed?): this.seed = seed || Math.random() * 1000000, then
\* initializeNoise() replaces the global Math.random; draw is the value
\* Math.random() returns if it is called
PathGeneratorSeed(seedArgument, draw) ==
    IF seedArgument # 0 THEN seedArgument
    ELSE draw * (SeedScale \div RandomResolution)

NewPathGenerator(seed) ==
    [constructed |-> TRUE,
     seed |-> seed,
     lastPosition |-> <<0, 0>>,
     lastDirection |-> <<0, -1>>,
     currentDistance |-> 0,
     difficulty |-> 0]

\* as DrawsForGap, but without sparing the beginning of the chunk
DrawsForGap_NoHead(index, totalPoints) == ~(index > totalPoints - 10)

\* shouldCreateGap of the gap-enabled generator: no gap (and no draw) near
\* the ends of the chunk, else Math.random() < 0.05 * (1 + difficulty * 0.5)
DrawsForGap(index, totalPoints) == ~(index < 5 \/ index > totalPoints - 10)
\* r is the draw in thousandths; r / 1000 < (1 / 20) * (1 + difficulty / 2),
\* both sides multiplied by 40 * difficultyDistance * RandomResolution
shouldCreateGap(difficulty, r) ==
    r * 40 * difficultyDistance
        < RandomResolution * (2 * difficultyDistance + difficulty)

\* getGapSize('ground', biome): 2 points, 4 in the cosmic biome
getBiomeAtDistance(distance) == (distance \div 5000) % 6
getGapSize(biome) == IF biome = 5 THEN 4 ELSE 2

\* createPathWithGaps of the gap-enabled generator works on a loop state st:
\* the index i, the segments closed so far (runs of point indices, from 0),
\* the segment being filled, and Math.random.

\* the loop state createPathWithGaps starts from
GapLoopStart(rnd) == [i |-> 0, segments |-> <<>>, currentSegment |-> <<>>, rnd |-> rnd]

\* as GapIteration, but a gap closes the current segment however short it is
GapIteration_AnyLength(st, gap, gapSize) ==
    IF gap
    THEN [st EXCEPT !.i = st.i + gapSize,
                    !.segments = Append(st.segments, st.currentSegment),
                    !.currentSegment = <<>>]
    ELSE [st EXCEPT !.i = st.i + 1,
                    !.currentSegment = Append(st.currentSegment, st.i)]

\* one pass of the loop body, gap being what shouldCreateGap returned
GapIteration(st, gap, gapSize) ==
    IF gap /\ Len(st.currentSegment) > 3
    THEN [st EXCEPT !.i = st.i + gapSize,
                    !.segments = Append(st.segments, st.currentSegment),
                    !.currentSegment = <<>>]
    ELSE [st EXCEPT !.i = st.i + 1,
                    !.currentSegment = Append(st.currentSegment, st.i)]

\* the segments returned once the loop is over
GapSegments(st, totalPoints) ==
    IF Len(st.currentSegment) > 0
    THEN Append(st.segments, st.currentSegment)
    ELSE IF Len(st.segments) = 0
         THEN <<[k \in 1..totalPoints |-> k - 1]>>
         ELSE st.segments

\* the loop: the segments, and the Math.random closure after the draws
RECURSIVE GapLoop(_, _, _, _)
GapLoop(st, totalPoints, difficulty, biomeOf) ==
    IF st.i >= totalPoints
    THEN [segments |-> GapSegments(st, totalPoints), rnd |-> st.rnd]
    ELSE LET draws == DrawsForGap(st.i, totalPoints)
             d == IF draws THEN NextRandom(st.rnd) ELSE [value |-> 0, rnd |-> st.rnd]
             gap == draws /\ shouldCreateGap(difficulty, d.value)
         IN GapLoop([GapIteration(st, gap, getGapSize(biomeOf[st.i + 1]))
                         EXCEPT !.rnd = d.rnd],
                    totalPoints, difficulty, biomeOf)

\* getGapSize for a point without terrain type: baseGapSizes[terrainType] || 3
defaultGapSize == 3

\* as shouldCreateGapChill, but asking for a gap at every tenth point
shouldCreateGapChill_Tenth(index, totalPoints) == index % 10 = 0

\* shouldCreateGap of the generators for chill gameplay: never a gap, no draw
shouldCreateGapChill(index, totalPoints) == FALSE

\* the loop of the generators for chill gameplay; the gap size of a point
\* without terrain type is the default one
RECURSIVE ChillLoop(_, _)
ChillLoop(st, totalPoints) ==
    IF st.i >= totalPoints
    THEN [segments |-> GapSegments(st, totalPoints), rnd |-> st.rnd]
    ELSE ChillLoop(GapIteration(st, shouldCreateGapChill(st.i, totalPoints),
                                defaultGapSize),
                   totalPoints)

\* createPathWithGaps, per generator: the current one never calls Math.random
createPathWithGaps(variant, totalPoints, difficulty, biomeOf, rnd) ==
    IF variant = "gap"
    THEN GapLoop(GapLoopStart(rnd), totalPoints, difficulty, biomeOf)
    ELSE ChillLoop(GapLoopStart(rnd), totalPoints)

\* the loop of generateChunk: for (let i = 0; i <= segmentCount; i++)
\* turn, step forward by segmentLength, then push the point
\* st is the loop's state: i, currentPos, currentDir and the points pushed
RECURSIVE GeneratePoints(_, _, _)
GeneratePoints(variant, g, st) ==
    IF st.i > segmentCount THEN st
    ELSE LET curvature == IF variant = "gap"
                          THEN getCurvatureAtDistance(g.currentDistance, st.i)
                          ELSE getCurvatureAtWorldPosition(g.seed, st.i)
             dir == RotateY(st.currentDir, curvature)
             pos == VAdd(st.currentPos, VScale(dir, chunkLength \div segmentCount))
         IN GeneratePoints(variant, g,
                           [i |-> st.i + 1, currentPos |-> pos, currentDir |-> dir,
                            points |-> Append(st.points, pos)])

\* the point loop of generateChunk run from the generator's last position and
\* direction; the loop variable starts at 0
PointRun_FromOne(variant, g) ==
    GeneratePoints(variant, g,
                   [i |-> 1, currentPos |-> g.lastPosition,
                    currentDir |-> g.lastDirection, points |-> <<>>])

PointRun(variant, g) ==
    GeneratePoints(variant, g,
                   [i |-> 0, currentPos |-> g.lastPosition,
                    currentDir |-> g.lastDirection, points |-> <<>>])

\* this.difficulty after the distance has grown to dist, in units of
\* 1 / difficultyDistance: Math.min(currentDistance / 10000, 1)
DifficultyAt_Unclamped(dist) == dist

DifficultyAt(dist) == Min(dist, difficultyDistance)

\* createScenicElements draws once for every 10th point and, below 0.3,
\* twice more in createBiomeElement; only the stream it leaves matters here
RECURSIVE ScenicLoop(_, _, _)
ScenicLoop(i, totalPoints, rnd) ==
    IF i >= totalPoints THEN rnd
    ELSE LET d == NextRandom(rnd)
         IN IF d.value * 10 < 3 * RandomResolution
            THEN ScenicLoop(i + 10, totalPoints, NextRandom(NextRandom(d.rnd).rnd).rnd)
            ELSE ScenicLoop(i + 10, totalPoints, d.rnd)

createScenicElements(variant, totalPoints, rnd) ==
    IF variant = "gap" THEN ScenicLoop(0, totalPoints, rnd) ELSE rnd

\* generateChunk(chunkId) of generator g while the global Math.random is
\* rnd: the chunk returned, the generator afterwards and Math.random
\* afterwards.  difficulty is kept in units of 1 / difficultyDistance.
\* generateChunkMeshes partitions the points first (meshSegments), then
\* createPathWithGaps is called again for the stored segments.
generateChunk(variant, g, chunkId, rnd) ==
    LET run == PointRun(variant, g)
        points == run.points
        dist == g.currentDistance + chunkLength
        difficulty == DifficultyAt(dist)
        biomeOf == [k \in 1..Len(points) |->
                      getBiomeAtDistance(g.currentDistance
                          + ((k - 1) * chunkLength) \div segmentCount)]
        meshes == createPathWithGaps(variant, Len(points), difficulty, biomeOf, rnd)
        scenic == createScenicElements(variant, Len(points), meshes.rnd)
        pathSegments == createPathWithGaps(variant, Len(points), difficulty,
                                           biomeOf, scenic)
    IN [chunk |-> [id |-> chunkId,
                   startPosition |-> points[1],
                   endPosition |-> points[Len(points)],
                   pointCount |-> Len(points),
                   segments |-> pathSegments.segments,
                   meshSegments |-> meshes.segments,
                   length |-> chunkLength],
        gen |-> [g EXCEPT !.lastPosition = points[Len(points)],
                          !.lastDirection = run.currentDir,
                          !.currentDistance = dist,
                          !.difficulty = difficulty],
        rnd |-> pathSegments.rnd]

-----------------------------------------------------------------------------
(* ChunkManager *)

MaxActive(v) == IF v = "current" THEN maxActiveChunks ELSE maxActiveChunksEarlier
LoadDistance(v) == IF v = "current" THEN chunkLoadDistance ELSE chunkLoadDistanceEarlier
UnloadDistance(v) == IF v = "current" THEN chunkUnloadDistance ELSE chunkUnloadDistanceEarlier
InitialChunks(v) == IF v = "current" THEN initialChunks ELSE initialChunksEarlier
ChunksPerLoad(v) == IF v = "current" THEN chunksPerLoad ELSE chunksPerLoadEarlier

\* the manager's mutable fields as one record, threaded through the helpers
CMState == [activeChunks |-> activeChunks, nextChunkId |-> nextChunkId,
            pathGenerator |-> pathGenerator, generated |-> generated,
            scene |-> scene, requested |-> requested]

\* how a generateNextChunk call ends: normally, with generateChunk throwing
\* while it builds the meshes, or with the terrain generation of loadChunk
\* throwing (the earlier ChunkManager generates no terrain)
Outcomes(v) ==
    IF v = "current" THEN {"ok", "generateThrows", "terrainThrows"}
    ELSE {"ok", "generateThrows"}

\* loadChunk: the path meshes go into the scene, then the terrain is
\* generated and added, then this.activeChunks.set(chunk.id, chunk)
loadChunk(v, st, chunk, outcome) ==
    LET pathAdded == [st EXCEPT !.scene = @ \cup {<<chunk.id, "path">>}]
    IN IF v = "current" /\ outcome = "terrainThrows" THEN pathAdded
       ELSE [pathAdded EXCEPT
                !.scene = @ \cup (IF v = "current" THEN {<<chunk.id, "terrain">>} ELSE {}),
                !.activeChunks = Append(st.activeChunks, chunk)]

\* unloadChunk: nothing for an id that is not resident; else the chunk's
\* meshes leave the scene and this.activeChunks.delete(chunkId)
unloadChunk(st, chunkId) ==
    IF \A i \in 1..Len(st.activeChunks) : st.activeChunks[i].id # chunkId THEN st
    ELSE [st EXCEPT !.scene = @ \ {<<chunkId, "path">>, <<chunkId, "terrain">>},
                    !.activeChunks = SelectSeq(st.activeChunks, LAMBDA c : c.id # chunkId)]

\* as generateNextChunk, but the catch block unloads every chunk
generateNextChunk_Cleanup(v, st, outcome) ==
    LET r == generateChunk("current", st.pathGenerator, st.nextChunkId, NativeRandom)
        st1 == [st EXCEPT !.nextChunkId = st.nextChunkId + 1,
                          !.requested = Append(@, st.nextChunkId),
                          !.pathGenerator = r.gen]
    IN IF outcome = "generateThrows" THEN [st1 EXCEPT !.activeChunks = <<>>, !.scene = {}]
       ELSE loadChunk(v, [st1 EXCEPT !.generated = Append(st.generated, r.chunk)],
                      r.chunk, outcome)

\* as generateNextChunk, but the counter moves on only when a chunk was loaded
generateNextChunk_Retry(v, st, outcome) ==
    LET r == generateChunk("current", st.pathGenerator, st.nextChunkId, NativeRandom)
        st0 == [st EXCEPT !.requested = Append(@, st.nextChunkId),
                          !.pathGenerator = r.gen]
        st1 == [st0 EXCEPT !.nextChunkId = st.nextChunkId + 1]
    IN IF outcome = "generateThrows" THEN st0
       ELSE IF v = "current" /\ outcome = "terrainThrows"
            THEN loadChunk(v, [st0 EXCEPT !.generated = Append(st.generated, r.chunk)],
                           r.chunk, outcome)
       ELSE loadChunk(v, [st1 EXCEPT !.generated = Append(st.generated, r.chunk)],
                      r.chunk, outcome)

\* generateNextChunk: take the next id, generate, load; what is thrown is
\* caught and dropped.  generateChunk has advanced the generator when it
\* comes to build the meshes.
generateNextChunk(v, st, outcome) ==
    LET r == generateChunk("current", st.pathGenerator, st.nextChunkId, NativeRandom)
        st1 == [st EXCEPT !.nextChunkId = st.nextChunkId + 1,
                          !.requested = Append(@, st.nextChunkId),
                          !.pathGenerator = r.gen]
    IN IF outcome = "generateThrows" THEN st1
       ELSE loadChunk(v, [st1 EXCEPT !.generated = Append(st.generated, r.chunk)],
                      r.chunk, outcome)

\* the generateNextChunk calls of one loop, outcomes being how each ends
RECURSIVE GenerateTimes(_, _, _)
GenerateTimes(v, st, outcomes) ==
    IF Len(outcomes) = 0 THEN st
    ELSE GenerateTimes(v, generateNextChunk(v, st, Head(outcomes)), Tail(outcomes))

\* index of the first maximum of f over the chunks, in insertion order (the
\* loops compare with a strict >, starting from -Infinity); 0 when empty
RECURSIVE FirstMaxFrom(_, _, _, _)
FirstMaxFrom(vals, i, best, bestVal) ==
    IF i > Len(vals) THEN best
    ELSE IF best = 0 \/ vals[i] > bestVal
         THEN FirstMaxFrom(vals, i + 1, i, vals[i])
         ELSE FirstMaxFrom(vals, i + 1, best, bestVal)
FirstMax(vals) == FirstMaxFrom(vals, 1, 0, 0)

\* the chunk checkForwardChunkLoading calls furthestChunk (index, 0 if none)
FurthestChunk(chunks, pos) ==
    FirstMax([i \in 1..Len(chunks) |-> DistSq(pos, chunks[i].endPosition)])

\* as LoadsAhead, but content with any chunk whose end is near enough
LoadsAhead_Any(v, chunks, pos) ==
    \E i \in 1..Len(chunks) :
        DistSq(pos, chunks[i].endPosition) < LoadDistance(v) * LoadDistance(v)

\* whether checkForwardChunkLoading generates
LoadsAhead(v, chunks, pos) ==
    LET f == FurthestChunk(chunks, pos)
    IN /\ f # 0
       /\ DistSq(pos, chunks[f].endPosition) < LoadDistance(v) * LoadDistance(v)

checkForwardChunkLoading(v, st, pos, outcomes) ==
    IF LoadsAhead(v, st.activeChunks, pos)
    THEN GenerateTimes(v, st, outcomes)
    ELSE st

\* checkBackwardChunkUnloading: every chunk whose start is further than
\* chunkUnloadDistance from the marble is unloaded
RECURSIVE UnloadEach(_, _)
UnloadEach(st, chunksToUnload) ==
    IF Len(chunksToUnload) = 0 THEN st
    ELSE UnloadEach(unloadChunk(st, Head(chunksToUnload).id), Tail(chunksToUnload))

checkBackwardChunkUnloading(v, st, pos) ==
    UnloadEach(st, SelectSeq(st.activeChunks,
                             LAMBDA c : DistSq(pos, c.startPosition)
                                          > UnloadDistance(v) * UnloadDistance(v)))

\* as FurthestFromOrigin, but picking the chunk that has been resident longest
FurthestFromOrigin_Oldest(chunks) == IF Len(chunks) = 0 THEN 0 ELSE 1

\* the chunk enforceMemoryLimits evicts: furthest start from the origin
FurthestFromOrigin(chunks) ==
    FirstMax([i \in 1..Len(chunks) |-> LengthSq(chunks[i].startPosition)])

\* mutant: an if in place of the while, one eviction per update
enforceMemoryLimits_Once(v, st) ==
    IF Len(st.activeChunks) > MaxActive(v)
    THEN unloadChunk(st, st.activeChunks[FurthestFromOrigin(st.activeChunks)].id)
    ELSE st

\* enforceMemoryLimits: while over the cap, unload the chunk whose start is
\* furthest from the origin
RECURSIVE enforceMemoryLimits(_, _)
enforceMemoryLimits(v, st) ==
    IF Len(st.activeChunks) > MaxActive(v)
    THEN enforceMemoryLimits(v,
             unloadChunk(st, st.activeChunks[FurthestFromOrigin(st.activeChunks)].id))
    ELSE st

\* update(marblePosition): the three phases in order
\* the first two phases of update
BeforeMemoryLimits(v, st, pos, outcomes) ==
    checkBackwardChunkUnloading(v, checkForwardChunkLoading(v, st, pos, outcomes), pos)

\* as getPathAtPosition, but measuring to the chunk's start
getPathAtPosition_Start(chunks, pos) ==
    FirstMax([i \in 1..Len(chunks) |-> -DistSq(pos, chunks[i].startPosition)])

\* getPathAtPosition: index of the first chunk whose centre is closest to
\* the position (0 for null); distances are doubled, then squared
getPathAtPosition(chunks, pos) ==
    FirstMax([i \in 1..Len(chunks) |->
                 -DistSq(VScale(pos, 2), VAdd(chunks[i].startPosition, chunks[i].endPosition))])

\* id of the chunk getPathAtPosition returns, -1 for null
PathIdAtPosition(chunks, pos) ==
    IF getPathAtPosition(chunks, pos) = 0 THEN -1
    ELSE chunks[getPathAtPosition(chunks, pos)].id

ChunkIds(chunks) == {chunks[i].id : i \in 1..Len(chunks)}

\* chunk.points: the points lie one step apart on the line from the chunk's
\* start to its end
ChunkPoints(c) ==
    [k \in 1..c.pointCount |->
        VAdd(c.startPosition,
             VScale(<<(c.endPosition[1] - c.startPosition[1]) \div chunkLength,
                      (c.endPosition[2] - c.startPosition[2]) \div chunkLength>>,
                    (k - 1) * (chunkLength \div segmentCount)))]

\* THREE.Vector3.normalize of a vector along one axis
Normalize2(v) ==
    <<IF v[1] > 0 THEN 1 ELSE IF v[1] < 0 THEN -1 ELSE 0,
      IF v[2] > 0 THEN 1 ELSE IF v[2] < 0 THEN -1 ELSE 0>>

\* new THREE.Vector3(0, 0, -1)
defaultDirection == <<0, -1>>

\* index (from 1) of the chunk point closest to the position, the first of
\* them when several are
ClosestPoint(points, pos) ==
    FirstMax([i \in 1..Len(points) |-> -DistSq(pos, points[i])])

\* as DirectionAt, but without turning the direction round when it was
\* taken toward the previous point
DirectionAt_Backward(points, closestIndex) ==
    LET directionIndex == IF closestIndex < Len(points) THEN closestIndex + 1
                          ELSE IF closestIndex > 1 THEN closestIndex - 1
                          ELSE closestIndex
    IN IF directionIndex # closestIndex
       THEN Normalize2(VAdd(points[directionIndex], VScale(points[closestIndex], -1)))
       ELSE defaultDirection

\* the direction at the closest point: toward the next point, or for the
\* last point from the previous one
DirectionAt(points, closestIndex) ==
    LET directionIndex == IF closestIndex < Len(points) THEN closestIndex + 1
                          ELSE IF closestIndex > 1 THEN closestIndex - 1
                          ELSE closestIndex
        direction == Normalize2(VAdd(points[directionIndex],
                                     VScale(points[closestIndex], -1)))
    IN IF directionIndex # closestIndex
       THEN (IF directionIndex < closestIndex THEN VScale(direction, -1) ELSE direction)
       ELSE defaultDirection

getPathDirectionAtPosition(chunks, pos) ==
    LET c == getPathAtPosition(chunks, pos)
    IN IF c = 0 \/ chunks[c].pointCount < 2 THEN defaultDirection
       ELSE DirectionAt(ChunkPoints(chunks[c]),
                        ClosestPoint(ChunkPoints(chunks[c]), pos))

\* the keys of the Map, in insertion order
IdsOf(chunks) == [i \in 1..Len(chunks) |-> chunks[i].id]

SetCMState(st) ==
    /\ activeChunks' = st.activeChunks
    /\ nextChunkId' = st.nextChunkId
    /\ pathGenerator' = st.pathGenerator
    /\ generated' = st.generated
    /\ scene' = st.scene
    /\ requested' = st.requested

\* update(marblePosition): the three phases in order, and what the
\* memory-cap phase leaves in the history
ChunkManagerUpdate(pos, outcomes) ==
    \E before \in {BeforeMemoryLimits(cmVersion, CMState, pos, outcomes)} :
       \E after \in {enforceMemoryLimits(cmVersion, before)} :
          /\ SetCMState(after)
          /\ marbleChunk' = PathIdAtPosition(before.activeChunks, pos)
          /\ capEvicted' = ChunkIds(before.activeChunks) \ ChunkIds(after.activeChunks)
          /\ beforeOp' = [ids |-> IdsOf(activeChunks), nextChunkId |-> nextChunkId]
          /\ beforeCap' = IdsOf(before.activeChunks)

\* initialize(): the initial burst
ChunkManagerInitialize(v, st, outcomes) == GenerateTimes(v, st, outcomes)

\* cleanup(): every resident chunk is unloaded
ChunkManagerCleanup(st) == UnloadEach(st, st.activeChunks)

-----------------------------------------------------------------------------
(* The path the marble rolls on *)

\* consecutive chunks lie segmentCount + 1 steps apart along the path
ChunkPitch == (segmentCount + 1) * (chunkLength \div segmentCount)

\* index (from 0) of the generated chunk that holds arc position a
ChunkIndexAt(a) == IF a < 1 THEN 0 ELSE (a - 1) \div ChunkPitch

\* world position of arc position a on the generated path
PathPositionAt(gen, a) ==
    LET k == ChunkIndexAt(a)
        c == gen[k + 1]
        dir == <<(c.endPosition[1] - c.startPosition[1]) \div (chunkLength),
                 (c.endPosition[2] - c.startPosition[2]) \div (chunkLength)>>
        off == a - k * ChunkPitch - (chunkLength \div segmentCount)
    IN VAdd(c.startPosition, VScale(dir, off))

\* the chunk that was generated under an id
ChunkOf(id) == generated[CHOOSE i \in 1..Len(generated) : generated[i].id = id]

IsResident(chunks, id) == \E i \in 1..Len(chunks) : chunks[i].id = id

\* last id j >= k such that chunks k..j are all resident (k - 1 if k is not)
RECURSIVE LastContiguous(_, _)
LastContiguous(chunks, k) ==
    IF IsResident(chunks, k) THEN LastContiguous(chunks, k + 1) ELSE k - 1

\* arc length of resident path ahead of arc position a; -1 off the resident path
ResidentAhead(chunks, a) ==
    LET k == ChunkIndexAt(a)
        j == LastContiguous(chunks, k)
    IN IF j < k THEN -1 ELSE (j + 1) * ChunkPitch - a

-----------------------------------------------------------------------------
(* Actions of the ChunkManager *)

Positions == {<<0, -(k * PositionStride)>> : k \in 0..MaxPositionIndex}

InitCM ==
    /\ cmVersion \in {"earlier", "current"}
    /\ activeChunks = <<>>
    /\ nextChunkId = 0
    /\ pathGenerator \in {NewPathGenerator(s) : s \in Seeds}
    /\ initialized = FALSE
    /\ marblePosition = <<0, 0>>
    /\ marbleArc = 0
    /\ generated = <<>>
    /\ lastOp = "new"
    /\ scene = {}
    /\ lastOutcomes = <<>>
    /\ faults = 0
    /\ marbleChunk = -1
    /\ capEvicted = {}
    /\ requested = <<>>
    /\ beforeOp = [ids |-> <<>>, nextChunkId |-> 0]
    /\ beforeCap = <<>>

\* n generateNextChunk calls that all end normally
AllOk(n) == [k \in 1..n |-> "ok"]

Faults(outcomes) == Cardinality({k \in 1..Len(outcomes) : outcomes[k] # "ok"})

\* the ways n generateNextChunk calls may end
FaultyRuns(v, n) ==
    {o \in [1..n -> Outcomes(v)] : faults + Faults(o) <= MaxFaults}

\* initialize(), its generateNextChunk calls ending as outcomes says
Initialize(outcomes) ==
    /\ ~initialized
    /\ Len(outcomes) = InitialChunks(cmVersion)
    /\ \E st \in {ChunkManagerInitialize(cmVersion, CMState, outcomes)} : SetCMState(st)
    /\ beforeOp' = [ids |-> IdsOf(activeChunks), nextChunkId |-> nextChunkId]
    /\ initialized' = TRUE
    /\ marbleArc' = chunkLength \div segmentCount
    /\ lastOp' = "initialize"
    /\ lastOutcomes' = outcomes
    /\ faults' = faults + Faults(outcomes)
    /\ UNCHANGED <<cmVersion, marblePosition, marbleChunk, capEvicted, beforeCap>>
    /\ UNCHANGED <<genVars, mpVars, appVars>>

\* initialize() called once more: nothing in it looks at what is there
InitializeAgain(outcomes) ==
    /\ initialized
    /\ nextChunkId + InitialChunks(cmVersion) <= MaxChunkId
    /\ Len(outcomes) = InitialChunks(cmVersion)
    /\ \E st \in {ChunkManagerInitialize(cmVersion, CMState, outcomes)} : SetCMState(st)
    /\ beforeOp' = [ids |-> IdsOf(activeChunks), nextChunkId |-> nextChunkId]
    /\ lastOp' = "initialize"
    /\ lastOutcomes' = outcomes
    /\ faults' = faults + Faults(outcomes)
    /\ UNCHANGED <<cmVersion, initialized, marblePosition, marbleArc, marbleChunk,
                   capEvicted, beforeCap>>
    /\ UNCHANGED <<genVars, mpVars, appVars>>

\* how many generateNextChunk calls update(pos) makes
LoadCalls(pos) ==
    IF LoadsAhead(cmVersion, activeChunks, pos) THEN ChunksPerLoad(cmVersion) ELSE 0

\* generation stops at the model's id bound
WithinBound(pos, maxId) ==
    LoadsAhead(cmVersion, activeChunks, pos)
        => nextChunkId + ChunksPerLoad(cmVersion) <= maxId

WithinIdBound(pos) == WithinBound(pos, MaxChunkId)

\* update(marblePosition) with any position, its generateNextChunk calls
\* ending as outcomes says
UpdateChunks(pos, outcomes) ==
    /\ initialized
    /\ WithinIdBound(pos)
    /\ Len(outcomes) = LoadCalls(pos)
    /\ ChunkManagerUpdate(pos, outcomes)
    /\ marblePosition' = pos
    /\ lastOp' = "update"
    /\ lastOutcomes' = outcomes
    /\ faults' = faults + Faults(outcomes)
    /\ UNCHANGED <<cmVersion, initialized, marbleArc>>

\* update(marblePosition), called on its own
Update(pos, outcomes) ==
    /\ UpdateChunks(pos, outcomes)
    /\ UNCHANGED <<genVars, mpVars, appVars>>

\* the positions the engine asks the path direction for: on the path, at
\* its turns and past its end
DirectionPositions == Positions \cup {<<-100, -100>>, <<-250, -100>>, <<0, -2>>}

\* one frame of the engine: getPathDirectionAtPosition(position), then
\* update(position) with the same marble position
GetPathDirectionAtPosition(pos) ==
    /\ UpdateChunks(pos, AllOk(LoadCalls(pos)))
    /\ directionCall' = [called |-> TRUE,
                 position |-> pos,
                 chunk |-> PathIdAtPosition(activeChunks, pos),
                 closest |-> IF getPathAtPosition(activeChunks, pos) = 0 THEN 0
                             ELSE ClosestPoint(
                                      ChunkPoints(activeChunks[getPathAtPosition(activeChunks, pos)]),
                                      pos),
                 direction |-> getPathDirectionAtPosition(activeChunks, pos)]
    /\ UNCHANGED <<genVars, mpVars, geVars, imVars>>

\* cleanup()
Cleanup ==
    /\ initialized
    /\ lastOp # "cleanup"
    /\ \E st \in {ChunkManagerCleanup(CMState)} : SetCMState(st)
    /\ beforeOp' = [ids |-> IdsOf(activeChunks), nextChunkId |-> nextChunkId]
    /\ lastOp' = "cleanup"
    /\ lastOutcomes' = <<>>
    /\ UNCHANGED <<cmVersion, initialized, marblePosition, marbleArc, faults,
                   marbleChunk, capEvicted, beforeCap>>
    /\ UNCHANGED <<genVars, mpVars, appVars>>

\* one tick of a forward run: the marble advances along the generated
\* path, then update() is called with its new position
Roll(step, maxId) ==
    /\ initialized
    /\ ChunkIndexAt(marbleArc + step) < Len(generated)
    /\ \E pos \in {PathPositionAt(generated, marbleArc + step)} :
          \E n \in {LoadCalls(pos)} :
             /\ n > 0 => nextChunkId + n <= maxId
             /\ ChunkManagerUpdate(pos, AllOk(n))
             /\ marblePosition' = pos
             /\ lastOutcomes' = AllOk(n)
    /\ marbleArc' = marbleArc + step
    /\ lastOp' = "update"
    /\ UNCHANGED <<cmVersion, initialized, faults>>
    /\ UNCHANGED <<genVars, mpVars, appVars>>

Tick(step) == Roll(step, MaxChunkId)

\* one tick of a fast forward run
FastTick(step) == Roll(step, MaxFastChunkId)

-----------------------------------------------------------------------------
(* Actions of the PathGenerator instances of one process *)

GenIds == {1, 2}

\* no call of createPathWithGaps is being followed
NoGapWalk ==
    [started |-> FALSE, currentDistance |-> 0, st |-> GapLoopStart(NativeRandom),
     returned |-> FALSE, segments |-> <<>>]

NoPathGenerator == [NewPathGenerator(0) EXCEPT !.constructed = FALSE]

\* the lone generator before its construction
NoLoneGenerator ==
    [gen |-> NoPathGenerator, rnd |-> NativeRandom, calls |-> 0, chunkId |-> 0,
     chunk |-> <<>>, before |-> NoPathGenerator, rndBefore |-> NativeRandom]

InitGen ==
    /\ genVariant \in {"current", "gap"}
    /\ mathRandom = NativeRandom
    /\ gens = [g \in GenIds |-> NoPathGenerator]
    /\ seedArg = [g \in GenIds |-> 0]
    /\ out = [g \in GenIds |-> <<>>]
    /\ solo = [g \in GenIds |-> [gen |-> NoPathGenerator, rnd |-> NativeRandom]]
    /\ soloOut = [g \in GenIds |-> <<>>]
    /\ gapWalk = NoGapWalk
    /\ lone = NoLoneGenerator

\* what Math.random() may return now
RandomDraws(rnd) ==
    IF rnd.native THEN NativeDraws ELSE {NextRandom(rnd).value}

\* new PathGenerator(a)
Construct(g, a) ==
    /\ ~gens[g].constructed
    /\ \E draw \in RandomDraws(mathRandom) :
          LET seed == PathGeneratorSeed(a, draw)
          IN /\ gens' = [gens EXCEPT ![g] = NewPathGenerator(seed)]
             /\ mathRandom' = seededRandom(seed)
             /\ solo' = [solo EXCEPT ![g] = [gen |-> NewPathGenerator(seed),
                                             rnd |-> seededRandom(seed)]]
    /\ seedArg' = [seedArg EXCEPT ![g] = a]
    /\ UNCHANGED <<genVariant, out, soloOut, gapWalk, lone>>

\* gens[g].generateChunk(id), the id being the count of its chunks so far
GenerateChunk(g) ==
    /\ gens[g].constructed
    /\ Len(out[g]) < MaxGenChunks
    /\ LET r == generateChunk(genVariant, gens[g], Len(out[g]), mathRandom)
           own == generateChunk(genVariant, solo[g].gen, Len(out[g]), solo[g].rnd)
       IN /\ gens' = [gens EXCEPT ![g] = r.gen]
          /\ out' = [out EXCEPT ![g] = Append(@, r.chunk)]
          /\ mathRandom' = r.rnd
          /\ solo' = [solo EXCEPT ![g] = [gen |-> own.gen, rnd |-> own.rnd]]
          /\ soloOut' = [soloOut EXCEPT ![g] = Append(@, own.chunk)]
    /\ UNCHANGED <<genVariant, seedArg, gapWalk, lone>>

\* new PathGenerator(seed), on its own in its process
ConstructLone(seed) ==
    /\ ~lone.gen.constructed
    /\ lone' = [lone EXCEPT !.gen = NewPathGenerator(seed), !.rnd = seededRandom(seed)]
    /\ UNCHANGED <<genVariant, mathRandom, gens, seedArg, out, solo, soloOut, gapWalk>>

\* lone.generateChunk(chunkId)
GenerateLone(chunkId) ==
    /\ lone.gen.constructed
    /\ lone.calls < MaxLoneChunks
    /\ \E r \in {generateChunk(genVariant, lone.gen, chunkId, lone.rnd)} :
          lone' = [gen |-> r.gen, rnd |-> r.rnd, calls |-> lone.calls + 1,
                   chunkId |-> chunkId, chunk |-> r.chunk,
                   before |-> lone.gen, rndBefore |-> lone.rnd]
    /\ UNCHANGED <<genVariant, mathRandom, gens, seedArg, out, solo, soloOut, gapWalk>>

\* the distances travelled a followed call starts at: the first chunk, the
\* chunk that brings the difficulty to a half, a chunk of the cosmic biome
GapWalkDistances == {0, 4800, 25000}

\* values Math.random() may return in shouldCreateGap, in thousandths: below
\* the chance at every difficulty, below it from difficulty 0.4, above it
GapDraws == {20, 60, 500}

\* generateChunk of the gap-enabled generator reaches createPathWithGaps
\* with currentDistance already advanced and the difficulty set from it
StartGapWalk(distance) ==
    /\ ~gapWalk.started
    /\ gapWalk' = [NoGapWalk EXCEPT !.started = TRUE, !.currentDistance = distance]
    /\ UNCHANGED <<genVariant, mathRandom, gens, seedArg, out, solo, soloOut, lone>>

\* one pass of the loop, Math.random() returning draw if it is called
GapPass(draw) ==
    /\ gapWalk.started
    /\ gapWalk.st.i < segmentCount + 1
    /\ LET st == gapWalk.st
           difficulty == Min(gapWalk.currentDistance + chunkLength, difficultyDistance)
           biome == getBiomeAtDistance(gapWalk.currentDistance
                                         + (st.i * chunkLength) \div segmentCount)
           gap == DrawsForGap(st.i, segmentCount + 1) /\ shouldCreateGap(difficulty, draw)
       IN gapWalk' = [gapWalk EXCEPT !.st = GapIteration(st, gap, getGapSize(biome))]
    /\ UNCHANGED <<genVariant, mathRandom, gens, seedArg, out, solo, soloOut, lone>>

\* the loop is over and createPathWithGaps returns
GapReturn ==
    /\ gapWalk.started
    /\ ~gapWalk.returned
    /\ gapWalk.st.i >= segmentCount + 1
    /\ gapWalk' = [gapWalk EXCEPT !.returned = TRUE,
                                  !.segments = GapSegments(gapWalk.st, segmentCount + 1)]
    /\ UNCHANGED <<genVariant, mathRandom, gens, seedArg, out, solo, soloOut, lone>>

-----------------------------------------------------------------------------
(* MarblePhysics *)
(*                                                                         *)
(* Lengths and velocities are integers in units of 1e-4 (0.3 is 3000), a   *)
(* delta time is an integer count of 1/60 s, so that the code's            *)
(* deltaTime * 60 is that count, and the timers are in 1/60 s.  A product  *)
(* with a decimal factor (velocity * 0.975) is the integer product divided *)
(* by the factor's denominator, rounded toward zero.  A position is        *)
(* <<x, y, z>>, y the height.                                              *)

gravity == 150
airResistance == 998
maxSpeed == 4000
maxVerticalSpeed == 10000
bounceFactor == 3
marbleRadius == 3000
autoForwardSpeed == 3000
groundLevel == 3000
fallTimeout == 3000
fallFloor == -1000000
jumpForce == 3000
forwardBoost == 500
jumpCooldownTime == 30
checkpointUpdateInterval == 30
safeHeight == 20000
gapSentinel == -10000000
validPathFloor == -5000000
friction(v) == IF v = "auto" THEN 975 ELSE 985
acceleration(v) == IF v = "auto" THEN 250 ELSE 80

\* a * (n / d) for a decimal factor n / d, rounded toward zero
Times(a, n, d) ==
    IF a * n >= 0 THEN (a * n) \div d ELSE -((-(a * n)) \div d)

Sign(a) == IF a > 0 THEN 1 ELSE IF a < 0 THEN -1 ELSE 0

RECURSIVE SqrtBetween(_, _, _)
SqrtBetween(n, lo, hi) ==
    IF lo >= hi THEN lo
    ELSE LET mid == (lo + hi + 1) \div 2
         IN IF mid * mid <= n THEN SqrtBetween(n, mid, hi)
            ELSE SqrtBetween(n, lo, mid - 1)
\* Math.sqrt, rounded down
Sqrt(n) == SqrtBetween(n, 0, 40000)
\* Math.sqrt, rounded up: the divisor of a quotient that is rounded toward zero
SqrtUp(n) == LET r == Sqrt(n) IN IF r * r = n THEN r ELSE r + 1

V3Add(p, q) == <<p[1] + q[1], p[2] + q[2], p[3] + q[3]>>
V3Scale(p, k) == <<p[1] * k, p[2] * k, p[3] * k>>
V3Dot(p, q) == p[1] * q[1] + p[2] * q[2] + p[3] * q[3]
V3LengthSq(p) == V3Dot(p, p)
Zero3 == <<0, 0, 0>>
\* multiplyScalar by a decimal factor n / d
Times3(p, n, d) == <<Times(p[1], n, d), Times(p[2], n, d), Times(p[3], n, d)>>

\* the fields as the class declares them (l.410-449, l.543, l.623)
NewMarblePhysics ==
    [marble |-> FALSE,
     position |-> Zero3,
     rotation |-> "zero",
     velocity |-> Zero3,
     angularVelocity |-> Zero3,
     isFalling |-> FALSE,
     fallStartTime |-> 0,
     canJump |-> TRUE,
     jumpCooldown |-> 0,
     lastSafePosition |-> <<0, safeHeight, 0>>,
     checkpointUpdateTimer |-> 0,
     pathDirection |-> <<0, 0, -1>>,
     pathSurfaceHeight |-> 0]

jump(s) ==
    [s EXCEPT !.velocity = <<s.velocity[1], jumpForce, s.velocity[3] - forwardBoost>>,
              !.jumpCooldown = jumpCooldownTime,
              !.canJump = FALSE]

\* as handleJumping, but a grounded marble may jump whatever the cooldown
handleJumping_NoCooldown(s, input, dt) ==
    LET cooldown == IF s.jumpCooldown > 0 THEN s.jumpCooldown - dt ELSE s.jumpCooldown
        marbleBottom == s.position[2] - marbleRadius
        isOnGround == marbleBottom <= s.pathSurfaceHeight + 1000
        s1 == [s EXCEPT !.jumpCooldown = cooldown, !.canJump = isOnGround]
    IN IF input.jump /\ s1.canJump THEN jump(s1) ELSE s1

handleJumping(s, input, dt) ==
    LET cooldown == IF s.jumpCooldown > 0 THEN s.jumpCooldown - dt ELSE s.jumpCooldown
        marbleBottom == s.position[2] - marbleRadius
        isOnGround == marbleBottom <= s.pathSurfaceHeight + 1000
        s1 == [s EXCEPT !.jumpCooldown = cooldown,
                        !.canJump = isOnGround /\ cooldown <= 0]
    IN IF input.jump /\ s1.canJump THEN jump(s1) ELSE s1

\* direct-input version, l.110-120
applyInputForcesDirect(s, input, dt) ==
    IF ~input.active THEN s
    ELSE [s EXCEPT !.velocity = <<s.velocity[1] + input.x * acceleration("direct") * dt,
                                  s.velocity[2],
                                  s.velocity[3] + input.z * acceleration("direct") * dt>>]

\* as applyInputForcesAuto, but adding the steering to the velocity the
\* marble has instead of first forcing the forward motion
applyInputForcesAuto_Add(s, input, dt) ==
    LET d == s.pathDirection
        right == <<-d[3], 0, d[1]>>
        steer == IF input.active /\ input.x # 0
                 THEN input.x * acceleration("auto") * dt * 2 ELSE 0
    IN [s EXCEPT !.velocity = <<s.velocity[1] + right[1] * steer,
                                s.velocity[2],
                                s.velocity[3] + right[3] * steer>>]

\* path-relative version, l.519-541; the right vector is pathDirection x (0, 1, 0)
applyInputForcesAuto(s, input, dt) ==
    LET d == s.pathDirection
        right == <<-d[3], 0, d[1]>>
        steer == IF input.active /\ input.x # 0
                 THEN input.x * acceleration("auto") * dt * 2 ELSE 0
    IN [s EXCEPT !.velocity = <<d[1] * autoForwardSpeed + right[1] * steer,
                                s.velocity[2],
                                d[3] * autoForwardSpeed + right[3] * steer>>]

applyInputForces(v, s, input, dt) ==
    IF v = "auto" THEN applyInputForcesAuto(s, input, dt)
    ELSE applyInputForcesDirect(s, input, dt)

applyGravity(s, dt) ==
    [s EXCEPT !.velocity[2] = @ - gravity * dt]

applyFriction(v, s) ==
    LET isOnGround == s.position[2] <= groundLevel + 1000
    IN IF isOnGround
       THEN [s EXCEPT !.velocity = <<Times(s.velocity[1], friction(v), 1000),
                                     Times(s.velocity[2], 95, 100),
                                     Times(s.velocity[3], friction(v), 1000)>>]
       ELSE [s EXCEPT !.velocity = <<Times(s.velocity[1], airResistance, 1000),
                                     Times(s.velocity[2], airResistance, 1000),
                                     Times(s.velocity[3], airResistance, 1000)>>]

\* as limitSpeed, but limiting the horizontal speed only
limitSpeed_Horizontal(s) ==
    LET vx == s.velocity[1]
        vz == s.velocity[3]
        hsq == vx * vx + vz * vz
        h == SqrtUp(hsq)
        over == hsq > maxSpeed * maxSpeed
    IN [s EXCEPT !.velocity = <<IF over THEN Times(vx, maxSpeed, h) ELSE vx,
                                s.velocity[2],
                                IF over THEN Times(vz, maxSpeed, h) ELSE vz>>]

limitSpeed(s) ==
    LET vx == s.velocity[1]
        vy == s.velocity[2]
        vz == s.velocity[3]
        hsq == vx * vx + vz * vz
        h == SqrtUp(hsq)
        over == hsq > maxSpeed * maxSpeed
        x1 == IF over THEN Times(vx, maxSpeed, h) ELSE vx
        z1 == IF over THEN Times(vz, maxSpeed, h) ELSE vz
        y1 == IF Abs(vy) > maxVerticalSpeed THEN Sign(vy) * maxVerticalSpeed ELSE vy
    IN [s EXCEPT !.velocity = <<x1, y1, z1>>]

updatePosition(s, dt) ==
    IF ~s.marble THEN s
    ELSE [s EXCEPT !.position = V3Add(s.position, V3Scale(s.velocity, dt))]

\* as handleGroundCollision, but lifting the marble by its radius instead of
\* placing it on the surface
handleGroundCollision_Lift(s) ==
    IF ~s.marble THEN s
    ELSE IF s.position[2] - marbleRadius <= s.pathSurfaceHeight
         THEN [s EXCEPT !.position[2] = @ + marbleRadius]
         ELSE s

handleGroundCollision(s) ==
    IF ~s.marble THEN s
    ELSE LET marbleBottom == s.position[2] - marbleRadius
             bounced == Times(-s.velocity[2], bounceFactor, 10)
         IN IF marbleBottom <= s.pathSurfaceHeight
            THEN [s EXCEPT !.position[2] = s.pathSurfaceHeight + marbleRadius,
                           !.velocity[2] =
                               IF s.velocity[2] < 0
                               THEN (IF Abs(bounced) < 100 THEN 0 ELSE bounced)
                               ELSE @]
            ELSE s

\* the mesh's rotation is kept as "zero" (as reset leaves it) or "turned"
updateRotation(s, dt) ==
    LET v == s.velocity
        speed == Sqrt(V3LengthSq(v))
        rotationSpeed == (speed * 10000) \div marbleRadius
        h == Sqrt(v[1] * v[1] + v[3] * v[3])
        rotationAxisX == IF h = 0 THEN 0 ELSE Times(-v[3] * 1000, 1, h)
        rotationAxisZ == IF h = 0 THEN 0 ELSE Times(v[1] * 1000, 1, h)
    IN IF ~s.marble \/ V3LengthSq(v) < 100 THEN s
       ELSE [s EXCEPT !.rotation = IF h > 0 THEN "turned" ELSE @,
                      !.angularVelocity =
                          <<Times(Times(rotationAxisX, rotationSpeed, 1000), 95, 100),
                            0,
                            Times(Times(rotationAxisZ, rotationSpeed, 1000), 95, 100)>>]

\* as updateCheckpoint, but saving as soon as the marble is over a valid
\* path, without waiting for the interval
updateCheckpoint_NoInterval(v, s, dt) ==
    IF ~s.marble THEN s
    ELSE LET marbleBottom == s.position[2] - marbleRadius
             isOnGround == marbleBottom <= s.pathSurfaceHeight + 5000
             isOnValidPath == s.pathSurfaceHeight > validPathFloor
         IN IF isOnGround /\ isOnValidPath
            THEN [s EXCEPT !.lastSafePosition = s.position,
                           !.checkpointUpdateTimer = 0]
            ELSE [s EXCEPT !.checkpointUpdateTimer = @ + dt]

updateCheckpoint(v, s, dt) ==
    IF ~s.marble THEN s
    ELSE LET timer == s.checkpointUpdateTimer + dt
             marbleBottom == s.position[2] - marbleRadius
             isOnGround == marbleBottom <= s.pathSurfaceHeight + 5000
             isMovingForward == s.velocity[3] < -100
             isOnValidPath == s.pathSurfaceHeight > validPathFloor
             save == IF v = "auto"
                     THEN isOnGround /\ isOnValidPath
                     ELSE isOnGround /\ isOnValidPath
                          /\ (isMovingForward \/ V3LengthSq(s.velocity) < 10000)
         IN IF timer >= checkpointUpdateInterval /\ save
            THEN [s EXCEPT !.lastSafePosition = s.position,
                           !.checkpointUpdateTimer = 0]
            ELSE [s EXCEPT !.checkpointUpdateTimer = timer]

\* as resetToCheckpoint, but leaving the marble where it is
resetToCheckpoint_Stay(s) ==
    [s EXCEPT !.rotation = IF s.marble THEN "zero" ELSE @,
              !.velocity = Zero3,
              !.angularVelocity = Zero3,
              !.isFalling = FALSE,
              !.fallStartTime = 0,
              !.jumpCooldown = 0,
              !.canJump = TRUE]

resetToCheckpoint(s) ==
    [s EXCEPT !.position = IF s.marble
                           THEN <<s.lastSafePosition[1],
                                  Max(s.lastSafePosition[2], safeHeight),
                                  s.lastSafePosition[3]>>
                           ELSE @,
              !.rotation = IF s.marble THEN "zero" ELSE @,
              !.velocity = Zero3,
              !.angularVelocity = Zero3,
              !.isFalling = FALSE,
              !.fallStartTime = 0,
              !.jumpCooldown = 0,
              !.canJump = TRUE]

resetAfterFall(s) == resetToCheckpoint(s)

reset(s) ==
    [s EXCEPT !.rotation = IF s.marble THEN "zero" ELSE @,
              !.velocity = Zero3,
              !.angularVelocity = Zero3,
              !.isFalling = FALSE,
              !.fallStartTime = 0,
              !.jumpCooldown = 0,
              !.canJump = TRUE]

\* clock is Date.now()
handleFalling(v, s, dt, clock) ==
    IF ~s.marble THEN s
    ELSE LET s1 == [s EXCEPT !.velocity[2] = @ - gravity * 2 * dt]
             s2 == [s1 EXCEPT !.rotation =
                        IF V3LengthSq(s1.velocity) > 0 THEN "turned" ELSE @]
             s3 == updatePosition(s2, dt)
             fallTime == clock - s.fallStartTime
             hasFallenTooLong == fallTime > fallTimeout
             hasFallenTooFar == v = "auto" /\ s3.position[2] < fallFloor
         IN IF hasFallenTooLong \/ hasFallenTooFar THEN resetAfterFall(s3) ELSE s3

startFalling(s, clock) ==
    [s EXCEPT !.isFalling = TRUE,
              !.fallStartTime = clock,
              !.velocity[2] = Min(@, -1000)]

setPathSurfaceHeight(s, height) == [s EXCEPT !.pathSurfaceHeight = height]

\* THREE.Vector3.normalize of a vector along one axis (the zero vector stays zero)
Normalize(v) == <<Sign(v[1]), Sign(v[2]), Sign(v[3])>>

\* direction.clone().normalize()
setPathDirection(s, direction) == [s EXCEPT !.pathDirection = Normalize(direction)]

\* what the downward ray of checkPathCollisionWithRaycasting meets: no mesh
\* was handed in, no mesh is hit, or the height y of the nearest hit
NoMeshes == [meshes |-> FALSE, hit |-> FALSE, y |-> 0]
NoHit == [meshes |-> TRUE, hit |-> FALSE, y |-> 0]
HitAt(y) == [meshes |-> TRUE, hit |-> TRUE, y |-> y]

\* distanceToPath <= this.marbleRadius + 0.5
raycastTolerance == 5000

\* as checkPathCollisionWithRaycasting, but a marble without path below it
\* starts to fall
checkPathCollisionWithRaycasting_Falls(s, hit) ==
    IF ~s.marble \/ ~hit.meshes THEN s
    ELSE IF hit.hit /\ hit.y <= s.position[2]
            /\ s.position[2] - hit.y <= marbleRadius + raycastTolerance
         THEN [s EXCEPT !.pathSurfaceHeight = hit.y]
         ELSE [s EXCEPT !.pathSurfaceHeight = gapSentinel, !.isFalling = TRUE]

\* checkPathCollisionWithRaycasting (auto-forward version): the nearest hit
\* within marbleRadius + 0.5 below the marble gives the surface height,
\* anything else the gap sentinel
checkPathCollisionWithRaycasting(s, hit) ==
    IF ~s.marble \/ ~hit.meshes THEN s
    ELSE IF hit.hit /\ hit.y <= s.position[2]
            /\ s.position[2] - hit.y <= marbleRadius + raycastTolerance
         THEN [s EXCEPT !.pathSurfaceHeight = hit.y]
         ELSE [s EXCEPT !.pathSurfaceHeight = gapSentinel]

setCheckpoint(s, p) == [s EXCEPT !.lastSafePosition = p]

addImpulse(s, impulse) == [s EXCEPT !.velocity = V3Add(@, impulse)]

\* as handlePathCollision, but a collision with the path ends a fall
handlePathCollision_Lands(s, pathNormal, penetrationDepth) ==
    IF ~s.marble THEN s
    ELSE LET normalVelocity == V3Dot(s.velocity, pathNormal)
             reflection == V3Scale(pathNormal, Times(2 * normalVelocity, bounceFactor, 10))
         IN [s EXCEPT !.position = V3Add(@, V3Scale(pathNormal, penetrationDepth)),
                      !.velocity = IF normalVelocity < 0
                                   THEN V3Add(@, V3Scale(reflection, -1)) ELSE @,
                      !.isFalling = FALSE]

\* pathNormal is a unit axis vector; bounceFactor is in tenths
handlePathCollision(s, pathNormal, penetrationDepth) ==
    IF ~s.marble THEN s
    ELSE LET normalVelocity == V3Dot(s.velocity, pathNormal)
             reflection == V3Scale(pathNormal, Times(2 * normalVelocity, bounceFactor, 10))
         IN [s EXCEPT !.position = V3Add(@, V3Scale(pathNormal, penetrationDepth)),
                      !.velocity = IF normalVelocity < 0
                                   THEN V3Add(@, V3Scale(reflection, -1)) ELSE @]

\* initialize(marble): the mesh handed in is at meshPosition
\* isOnGround(): the marble bottom is no more than 0.1 above the supplied
\* surface height
isOnGround(s) ==
    s.marble /\ s.position[2] - marbleRadius <= s.pathSurfaceHeight + 1000

initialize(s, meshPosition) ==
    reset([s EXCEPT !.marble = TRUE, !.position = meshPosition])

\* the steps of update past the falling branch, up to the position update
Integrated(v, s, dt, input) ==
    LET s1 == handleJumping(s, input, dt)
        s2 == applyInputForces(v, s1, input, dt)
        s3 == limitSpeed(applyFriction(v, applyGravity(s2, dt)))
    IN updatePosition(s3, dt)

\* the steps of update past the falling branch
RollingUpdate(v, s, dt, input) ==
    LET s5 == handleGroundCollision(Integrated(v, s, dt, input))
        s6 == updateRotation(s5, dt)
    IN updateCheckpoint(v, s6, dt)

\* as update, but running on into the rolling steps after the falling step
update_NoReturn(v, s, dt, input, clock) ==
    IF ~s.marble THEN s
    ELSE IF s.isFalling THEN RollingUpdate(v, handleFalling(v, s, dt, clock), dt, input)
    ELSE RollingUpdate(v, s, dt, input)

\* as update, but without the check that a marble has been handed over
update_Unguarded(v, s, dt, input, clock) ==
    IF s.isFalling THEN handleFalling(v, s, dt, clock)
    ELSE RollingUpdate(v, s, dt, input)

update(v, s, dt, input, clock) ==
    IF ~s.marble THEN s
    ELSE IF s.isFalling THEN handleFalling(v, s, dt, clock)
    ELSE RollingUpdate(v, s, dt, input)

-----------------------------------------------------------------------------
(* Actions of the MarblePhysics *)

Idle == [x |-> 0, z |-> 0, active |-> FALSE, jump |-> FALSE]
Steer == [x |-> 1, z |-> -1, active |-> TRUE, jump |-> FALSE]
JumpSteer == [x |-> 1, z |-> -1, active |-> TRUE, jump |-> TRUE]
Inputs == {Idle, Steer, JumpSteer}

DeltaTimes == {1, MaxDt60}

\* where the mesh handed to initialize is: resting on a surface of height 0,
\* or one unit above the path's first point (GameEngine.getValidStartPosition)
MarbleStarts == {<<0, marbleRadius, 0>>, <<0, 10000, 0>>}

\* the heights the engine supplies: the path's, a higher stretch's, the gap sentinel
SurfaceHeights == {0, 20000, gapSentinel}

Impulses == {<<0, 2000, 0>>}

\* how far the clock runs on between two calls
ClockSteps == {fallTimeout, fallTimeout + 1}

InitMP ==
    /\ mpVersion \in {"direct", "auto"}
    /\ mp = NewMarblePhysics
    /\ now = StartMs
    /\ calls = 0
    /\ mpOp = [name |-> "new", dt |-> 0, input |-> Idle]
    /\ pre = [isFalling |-> FALSE, mp |-> NewMarblePhysics, fallTime |-> 0, fallAge |-> 0]
    /\ fallBegan = 0
    /\ jumpAge = -1
    /\ jumpGap = -1
    /\ saveAge = -1
    /\ saveGap = -1

\* the operations whose effect the history keeps in full
Recorded == {"update", "initialize", "reset", "resetToCheckpoint"}

\* the operations that set the jump cooldown back to 0
Resets == {"initialize", "reset", "resetToCheckpoint"}

\* an update of a rolling marble left the cooldown at its full time: jump()
\* ran in it (a rolling update takes the delta time off a running cooldown)
StartedJump(name, s) ==
    /\ name = "update"
    /\ mp.marble
    /\ ~mp.isFalling
    /\ s.jumpCooldown = jumpCooldownTime

\* an update of a rolling marble set the checkpoint timer back to 0:
\* updateCheckpoint saved in it (the interval is not 0, and a tick that does
\* not save leaves the timer no smaller)
SavedCheckpoint(name, dt, s) ==
    /\ name = "update"
    /\ mp.marble
    /\ ~mp.isFalling
    /\ dt > 0
    /\ s.checkpointUpdateTimer = 0

\* the operation name ran with delta time dt and input, and left the object
\* as s, in a run of at most maxCalls calls
RanWithin(name, dt, input, s, maxCalls) ==
    /\ calls < maxCalls
    /\ calls' = calls + 1
    /\ mp' = s
    /\ mpOp' = [name |-> name, dt |-> dt, input |-> input]
    /\ pre' = [isFalling |-> mp.isFalling,
               mp |-> IF name \in Recorded THEN mp ELSE NewMarblePhysics,
               fallTime |-> IF name \in Recorded THEN now - mp.fallStartTime ELSE 0,
               fallAge |-> IF name \in Recorded /\ mp.isFalling THEN now - fallBegan ELSE 0]
    /\ fallBegan' = IF name = "startFalling" /\ ~mp.isFalling THEN now ELSE fallBegan
    /\ jumpAge' = IF name \in Resets THEN -1
                  ELSE IF name = "update" /\ mp.marble /\ mp.isFalling /\ ~s.isFalling THEN -1
                  ELSE IF StartedJump(name, s) THEN 0
                  ELSE IF name = "update" /\ mp.marble /\ ~mp.isFalling /\ jumpAge >= 0
                       THEN Min(jumpAge + dt, 2 * jumpCooldownTime)
                  ELSE jumpAge
    /\ jumpGap' = IF StartedJump(name, s) /\ jumpAge >= 0 THEN jumpAge + dt ELSE -1
    /\ saveAge' = IF SavedCheckpoint(name, dt, s) THEN 0
                  ELSE IF name = "update" /\ mp.marble /\ saveAge >= 0
                       THEN Min(saveAge + dt, 2 * checkpointUpdateInterval)
                  ELSE saveAge
    /\ saveGap' = IF SavedCheckpoint(name, dt, s) /\ saveAge >= 0 THEN saveAge + dt ELSE -1
    /\ UNCHANGED <<mpVersion, now>>

\* the operation name ran with delta time dt and input, and left the object as s
Ran(name, dt, input, s) == RanWithin(name, dt, input, s, MaxCalls)

\* initialize(marble); a second call hands in the same mesh
PhysicsInitialize(meshPosition) ==
    /\ Ran("initialize", 0, Idle, initialize(mp, meshPosition))

PhysicsUpdate(dt, input) ==
    /\ Ran("update", dt, input, update(mpVersion, mp, dt, input, now))

\* the frame times of a run with jumps: a slow frame, a stalled one, and one
\* as long as the cooldown
JumpDeltaTimes == {MaxDt60, 12, jumpCooldownTime}

\* update(dt, input) in a run long enough for a second jump
JumpUpdate(dt, input) ==
    /\ RanWithin("update", dt, input, update(mpVersion, mp, dt, input, now), MaxJumpCalls)

StartFalling ==
    /\ Ran("startFalling", 0, Idle, startFalling(mp, now))

Reset ==
    /\ Ran("reset", 0, Idle, reset(mp))

ResetToCheckpoint ==
    /\ Ran("resetToCheckpoint", 0, Idle, resetToCheckpoint(mp))

SetPathSurfaceHeight(height) ==
    /\ Ran("setPathSurfaceHeight", 0, Idle, setPathSurfaceHeight(mp, height))

\* setCheckpoint(this.marble.position), as the engine calls it
SetCheckpoint ==
    /\ mp.marble
    /\ Ran("setCheckpoint", 0, Idle, setCheckpoint(mp, mp.position))

\* the directions GameEngine hands over: the difference of two neighbouring
\* path points, normalized or not
PathDirections == {<<0, 0, -1>>, <<0, 0, -4>>, <<-1, 0, 0>>, <<1, 0, 0>>, <<0, 0, 1>>}

SteerLeft == [x |-> -1, z |-> 0, active |-> TRUE, jump |-> FALSE]
SteerInputs == Inputs \cup {SteerLeft}

SetPathDirection(direction) ==
    /\ Ran("setPathDirection", 0, Idle, setPathDirection(mp, direction))

\* what the ray may meet: nothing handed in, nothing hit, a surface at 0 or
\* a higher stretch
RayHits == {NoMeshes, NoHit, HitAt(0), HitAt(20000)}

CheckPathCollisionWithRaycasting(hit) ==
    /\ mpVersion = "auto"
    /\ Ran("checkPathCollisionWithRaycasting", 0, Idle,
           checkPathCollisionWithRaycasting(mp, hit))

AddImpulse(impulse) ==
    /\ Ran("addImpulse", 0, Idle, addImpulse(mp, impulse))

HandlePathCollision(pathNormal, penetrationDepth) ==
    /\ Ran("handlePathCollision", 0, Idle,
           handlePathCollision(mp, pathNormal, penetrationDepth))

\* time passes; only a fall reads the clock
Elapse(ms) ==
    /\ mp.isFalling
    /\ now + ms <= StartMs + MaxElapsedMs
    /\ now' = now + ms
    /\ UNCHANGED <<mpVersion, mp, calls, mpOp, pre, fallBegan, jumpAge, jumpGap,
                   saveAge, saveGap>>

-----------------------------------------------------------------------------
(* The GameEngine's loop, vite.config.ts l.1311-1390, and the page's         *)
(* visibilitychange handler, main.ts l.19-26.  Of the engine's update only  *)
(* the call of marblePhysics.update is kept; its input is any the           *)
(* InputManager can give.                                                   *)

NewGameEngine == [isRunning |-> FALSE, lastTime |-> 0, hidden |-> FALSE]

InitGE ==
    /\ ge = NewGameEngine
    /\ pausedFall = 0
    /\ directionCall = [called |-> FALSE, position |-> <<0, 0>>, chunk |-> -1, closest |-> 0,
                direction |-> defaultDirection]

\* the longest time a run with pauses takes, in ms
MaxPausedMs == 3100

\* a running engine's frames follow each other within this time, in ms
MaxFrameMs == 50

\* the time between two events: a frame's, or with the engine not running
\* half the longest run
PauseSteps == {MaxFrameMs, MaxPausedMs \div 2}

\* deltaTime = (currentTime - this.lastTime) / 1000, in 1/60 s
DeltaTime(g, clock) == ((clock - g.lastTime) * 60) \div 1000

pause(g) == [g EXCEPT !.isRunning = FALSE]

\* gameLoop(): one frame of a running engine
GameLoop(input) ==
    /\ ge.isRunning
    /\ Ran("update", DeltaTime(ge, now), input,
           update(mpVersion, mp, DeltaTime(ge, now), input, now))
    /\ ge' = [ge EXCEPT !.lastTime = now]
    /\ UNCHANGED pausedFall

\* start(): positionMarbleOnPath() sets the checkpoint and resets, and the
\* first frame runs with deltaTime 0
Start(input) ==
    /\ ~ge.isRunning
    /\ mp.marble
    /\ Ran("start", 0, input,
           update(mpVersion, reset(setCheckpoint(mp, mp.position)), 0, input, now))
    /\ ge' = [ge EXCEPT !.isRunning = TRUE, !.lastTime = now]
    /\ pausedFall' = 0

\* the page is hidden: pause()
Hidden ==
    /\ ~ge.hidden
    /\ ge' = [pause(ge) EXCEPT !.hidden = TRUE]
    /\ UNCHANGED <<mpVars, pausedFall>>

\* the page is visible again: resume(), which runs a frame at once
Visible(input) ==
    /\ ge.hidden
    /\ ~ge.isRunning
    /\ Ran("update", 0, input, update(mpVersion, mp, 0, input, now))
    /\ ge' = [isRunning |-> TRUE, lastTime |-> now, hidden |-> FALSE]
    /\ UNCHANGED pausedFall

\* marblePhysics.startFalling(), between two frames
EngineStartFalling ==
    /\ StartFalling
    /\ pausedFall' = 0
    /\ UNCHANGED ge

\* time passes, the engine running or paused
TimePasses(ms) ==
    /\ now + ms <= StartMs + MaxPausedMs
    /\ IF ge.isRunning THEN now + ms <= ge.lastTime + MaxFrameMs ELSE ms > MaxFrameMs
    /\ now' = now + ms
    /\ pausedFall' = IF ~ge.isRunning /\ mp.isFalling THEN pausedFall + ms ELSE pausedFall
    /\ UNCHANGED <<mpVersion, mp, calls, mpOp, pre, fallBegan, jumpAge, jumpGap,
                   saveAge, saveGap, ge>>

-----------------------------------------------------------------------------
(* The InputManager, src/unnamed/part_003.  Steering values are in tenths   *)
(* (4.0 is 40), times in ms.                                                 *)

keyboardAcceleration == 35
touchSteering == 40
touchSensitivity == 5
steeringHold == 600
jumpCooldown == 200

\* the keys of the model: one steering key and the space bar
Keys == {"ArrowLeft", " "}

NewInputManager ==
    [keys |-> {},
     touchInput |-> [x |-> 0, z |-> 0, active |-> FALSE],
     jumpPressed |-> FALSE,
     lastJumpTime |-> 0,
     timers |-> <<>>]

\* as handleJumpInput, but accepting every tap
handleJumpInput_Always(s, clock) ==
    [s EXCEPT !.jumpPressed = TRUE, !.lastJumpTime = clock]

handleJumpInput(s, clock) ==
    IF clock - s.lastJumpTime > jumpCooldown
    THEN [s EXCEPT !.jumpPressed = TRUE, !.lastJumpTime = clock]
    ELSE s

\* handleTouchTap(x, y): the tap is in the left, the centre or the right
\* third of the screen
handleTouchTap(s, zone, clock) ==
    IF zone = "left"
    THEN [s EXCEPT !.touchInput = [x |-> -touchSteering, z |-> 0, active |-> TRUE],
                   !.timers = Append(@, clock + steeringHold)]
    ELSE IF zone = "right"
    THEN [s EXCEPT !.touchInput = [x |-> touchSteering, z |-> 0, active |-> TRUE],
                   !.timers = Append(@, clock + steeringHold)]
    ELSE handleJumpInput(s, clock)

\* the callback handed to setTimeout in handleTouchTap
releaseSteering(s) ==
    [s EXCEPT !.touchInput = [@ EXCEPT !.active = FALSE, !.x = 0],
              !.timers = Tail(@)]

onVisibilityChange(s, hidden) ==
    IF hidden
    THEN [s EXCEPT !.keys = {}, !.touchInput = [x |-> 0, z |-> 0, active |-> FALSE]]
    ELSE s

\* getInput(): the InputState returned, and the object after the read
getInput(s) ==
    LET left == "ArrowLeft" \in s.keys
        keyX == IF left THEN -keyboardAcceleration ELSE 0
        inputX == IF s.touchInput.active THEN s.touchInput.x * touchSensitivity ELSE keyX
    IN [input |-> [x |-> inputX,
                   z |-> 0,
                   active |-> left \/ s.touchInput.active,
                   jump |-> " " \in s.keys \/ s.jumpPressed],
        im |-> [s EXCEPT !.jumpPressed = FALSE]]

NoInput == [x |-> 0, z |-> 0, active |-> FALSE, jump |-> FALSE]

InitIM ==
    /\ im = NewInputManager
    /\ imOp = [name |-> "new", input |-> NoInput,
               tapTime |-> -1, tapX |-> 0, cleared |-> FALSE,
               lastAccept |-> -1, tapGap |-> -1, tapAccepted |-> FALSE,
               accepted |-> 0, refused |-> FALSE,
               readAccepted |-> 0, readRefused |-> FALSE]

\* the longest run of the InputManager, in ms, and the time between two events
MaxInputMs == 600
InputStep == 100
\* the most taps whose release is pending
MaxTimers == 2

\* the last operation; what is kept of a getInput or a centre tap only
\* lasts until the next operation
Named(name) ==
    [imOp EXCEPT !.name = name, !.input = NoInput,
                 !.tapGap = -1, !.tapAccepted = FALSE,
                 !.readAccepted = 0, !.readRefused = FALSE]

KeyDown(key) ==
    /\ key \notin im.keys
    /\ im' = [im EXCEPT !.keys = @ \cup {key}]
    /\ imOp' = Named("keydown")
    /\ UNCHANGED now

KeyUp(key) ==
    /\ key \in im.keys
    /\ im' = [im EXCEPT !.keys = @ \ {key}]
    /\ imOp' = Named("keyup")
    /\ UNCHANGED now

\* a centre tap took effect: it set the flag or moved lastJumpTime
Accepted(s) == s.lastJumpTime # im.lastJumpTime \/ (s.jumpPressed /\ ~im.jumpPressed)

\* onTouchStart with one touch in the zone
TouchTap(zone) ==
    /\ Len(im.timers) < MaxTimers
    /\ \E s \in {handleTouchTap(im, zone, now)} :
          /\ im' = s
          /\ imOp' = IF zone = "centre"
                      THEN [Named("jumpTap") EXCEPT
                               !.tapGap = IF imOp.lastAccept < 0 THEN -1
                                          ELSE now - imOp.lastAccept,
                               !.tapAccepted = Accepted(s),
                               !.lastAccept = IF Accepted(s) THEN now ELSE @,
                               !.accepted = IF Accepted(s) THEN Min(@ + 1, 2) ELSE @,
                               !.refused = @ \/ ~Accepted(s)]
                      ELSE [Named("steerTap") EXCEPT
                               !.tapTime = now, !.tapX = s.touchInput.x, !.cleared = FALSE]
    /\ UNCHANGED now

\* the oldest pending timeout is due and its callback runs
TimerFires ==
    /\ im.timers # <<>>
    /\ Head(im.timers) <= now
    /\ im' = releaseSteering(im)
    /\ imOp' = Named("timeout")
    /\ UNCHANGED now

VisibilityChange(hidden) ==
    /\ im' = onVisibilityChange(im, hidden)
    /\ imOp' = [Named("visibilitychange") EXCEPT !.cleared = @ \/ hidden]
    /\ UNCHANGED now

GetInput ==
    /\ im' = getInput(im).im
    /\ imOp' = [Named("getInput") EXCEPT
                            !.input = getInput(im).input,
                            !.readAccepted = imOp.accepted,
                            !.readRefused = imOp.refused,
                            !.accepted = 0,
                            !.refused = FALSE]
    /\ UNCHANGED now

\* time passes; a timeout runs when it is due, before the clock moves on
InputTimePasses ==
    /\ now + InputStep <= StartMs + MaxInputMs
    /\ im.timers # <<>> => now + InputStep <= Head(im.timers)
    /\ now' = now + InputStep
    /\ imOp' = Named("wait")
    /\ UNCHANGED im

-----------------------------------------------------------------------------
(* Specifications *)

vars == <<cmVars, genVars, mpVars, appVars>>

Init == InitCM /\ InitGen /\ InitMP /\ InitGE /\ InitIM

\* the ChunkManager driven with arbitrary marble positions
Next ==
    \/ Initialize(AllOk(InitialChunks(cmVersion)))
    \/ \E pos \in Positions : Update(pos, AllOk(LoadCalls(pos)))

Spec == Init /\ [][Next]_vars

\* the current ChunkManager with the marble advancing along the path
InitForward == Init /\ cmVersion = "current"

NextForward ==
    \/ Initialize(AllOk(InitialChunks(cmVersion)))
    \/ \E step \in 1..MaxStep : Tick(step)

SpecForward == InitForward /\ [][NextForward]_vars

\* the current ChunkManager with the marble rolling fast along the path
NextFast ==
    \/ Initialize(AllOk(InitialChunks(cmVersion)))
    \/ \E step \in MinStride..MaxStep : FastTick(step)

SpecFast == InitForward /\ [][NextFast]_vars

\* the ChunkManager with generation and terrain failures, and cleanup
NextFaults ==
    \/ \E outcomes \in FaultyRuns(cmVersion, InitialChunks(cmVersion)) : Initialize(outcomes)
    \/ \E pos \in Positions :
          \E outcomes \in FaultyRuns(cmVersion, LoadCalls(pos)) : Update(pos, outcomes)
    \/ Cleanup

InitFaults == Init /\ genVariant = "current" /\ mpVersion = "auto"

\* as NextFaults, with initialize() called any number of times
NextCalls ==
    \/ \E outcomes \in FaultyRuns(cmVersion, InitialChunks(cmVersion)) : Initialize(outcomes)
    \/ InitializeAgain(AllOk(InitialChunks(cmVersion)))
    \/ \E pos \in Positions :
          \E outcomes \in FaultyRuns(cmVersion, LoadCalls(pos)) : Update(pos, outcomes)

SpecCalls == InitFaults /\ [][NextCalls]_vars

SpecFaults == InitFaults /\ [][NextFaults]_vars

\* PathGenerator instances constructed and used in any order in one process
NextGen ==
    \/ \E g \in GenIds, a \in SeedArgs : Construct(g, a) /\ UNCHANGED <<cmVars, mpVars, appVars>>
    \/ \E g \in GenIds : GenerateChunk(g) /\ UNCHANGED <<cmVars, mpVars, appVars>>

SpecGen == Init /\ [][NextGen]_vars

\* the ids handed to the lone generator: the count of its chunks so far, or
\* one and the same id every time
LoneIds == {lone.calls, MaxLoneChunks}

\* one PathGenerator asked for chunk after chunk
NextLone ==
    \/ \E seed \in Seeds : ConstructLone(seed) /\ UNCHANGED <<cmVars, mpVars, appVars>>
    \/ \E chunkId \in LoneIds : GenerateLone(chunkId) /\ UNCHANGED <<cmVars, mpVars, appVars>>

InitLone ==
    /\ Init
    /\ cmVersion = "current"
    /\ pathGenerator.seed = SeedStraight
    /\ mpVersion = "auto"

SpecLone == InitLone /\ [][NextLone]_vars

\* one call of the gap-enabled createPathWithGaps with every outcome of its draws
NextGapWalk ==
    \/ \E distance \in GapWalkDistances :
          StartGapWalk(distance) /\ UNCHANGED <<cmVars, mpVars, appVars>>
    \/ \E draw \in GapDraws : GapPass(draw) /\ UNCHANGED <<cmVars, mpVars, appVars>>
    \/ GapReturn /\ UNCHANGED <<cmVars, mpVars, appVars>>

InitGapWalk ==
    /\ Init
    /\ cmVersion = "current"
    /\ pathGenerator.seed = SeedStraight
    /\ genVariant = "gap"
    /\ mpVersion = "auto"

SpecGapWalk == InitGapWalk /\ [][NextGapWalk]_vars

\* the public operations of one MarblePhysics, called in any order
NextPhysics ==
    \/ \E p \in (IF mp.marble THEN {mp.position} ELSE MarbleStarts) :
          PhysicsInitialize(p) /\ UNCHANGED <<cmVars, genVars, appVars>>
    \/ \E dt \in DeltaTimes, input \in Inputs :
          PhysicsUpdate(dt, input) /\ UNCHANGED <<cmVars, genVars, appVars>>
    \/ StartFalling /\ UNCHANGED <<cmVars, genVars, appVars>>
    \/ Reset /\ UNCHANGED <<cmVars, genVars, appVars>>
    \/ ResetToCheckpoint /\ UNCHANGED <<cmVars, genVars, appVars>>
    \/ \E h \in SurfaceHeights :
          SetPathSurfaceHeight(h) /\ UNCHANGED <<cmVars, genVars, appVars>>
    \/ SetCheckpoint /\ UNCHANGED <<cmVars, genVars, appVars>>
    \/ \E i \in Impulses : AddImpulse(i) /\ UNCHANGED <<cmVars, genVars, appVars>>
    \/ HandlePathCollision(<<0, 1, 0>>, 1000) /\ UNCHANGED <<cmVars, genVars, appVars>>
    \/ \E hit \in RayHits :
          CheckPathCollisionWithRaycasting(hit) /\ UNCHANGED <<cmVars, genVars, appVars>>
    \/ \E ms \in ClockSteps : Elapse(ms) /\ UNCHANGED <<cmVars, genVars, appVars>>

\* the auto-forward MarblePhysics steered along changing path directions
NextSteer ==
    \/ \E p \in (IF mp.marble THEN {mp.position} ELSE MarbleStarts) :
          PhysicsInitialize(p) /\ UNCHANGED <<cmVars, genVars, appVars>>
    \/ \E dt \in DeltaTimes, input \in SteerInputs :
          PhysicsUpdate(dt, input) /\ UNCHANGED <<cmVars, genVars, appVars>>
    \/ \E d \in PathDirections : SetPathDirection(d) /\ UNCHANGED <<cmVars, genVars, appVars>>
    \/ \E h \in SurfaceHeights :
          SetPathSurfaceHeight(h) /\ UNCHANGED <<cmVars, genVars, appVars>>

InitPhysics ==
    /\ Init
    /\ cmVersion = "current"
    /\ pathGenerator.seed = SeedStraight
    /\ genVariant = "current"

SpecPhysics == InitPhysics /\ [][NextPhysics]_vars

InitSteer == InitPhysics /\ mpVersion = "auto"

\* a MarblePhysics whose caller keeps asking for jumps, over frames of
\* different lengths, with the surface height changing, resets and falls
NextJump ==
    \/ \E p \in (IF mp.marble THEN {mp.position} ELSE MarbleStarts) :
          PhysicsInitialize(p) /\ UNCHANGED <<cmVars, genVars, appVars>>
    \/ \E dt \in JumpDeltaTimes, input \in {Idle, JumpSteer} :
          JumpUpdate(dt, input) /\ UNCHANGED <<cmVars, genVars, appVars>>
    \/ \E h \in {0, 20000} : SetPathSurfaceHeight(h) /\ UNCHANGED <<cmVars, genVars, appVars>>
    \/ ResetToCheckpoint /\ UNCHANGED <<cmVars, genVars, appVars>>
    \/ StartFalling /\ UNCHANGED <<cmVars, genVars, appVars>>
    \/ \E ms \in ClockSteps : Elapse(ms) /\ UNCHANGED <<cmVars, genVars, appVars>>

SpecJump == InitPhysics /\ [][NextJump]_vars

SpecSteer == InitSteer /\ [][NextSteer]_vars

\* the engine's frames, with the page hidden and shown again and the marble
\* set falling
NextPause ==
    \/ \E p \in (IF mp.marble THEN {} ELSE MarbleStarts) :
          PhysicsInitialize(p) /\ UNCHANGED <<cmVars, genVars, appVars>>
    \/ \E input \in {Idle, Steer} : Start(input) /\ UNCHANGED <<cmVars, genVars, directionCall, imVars>>
    \/ \E input \in {Idle, Steer} : GameLoop(input) /\ UNCHANGED <<cmVars, genVars, directionCall, imVars>>
    \/ Hidden /\ UNCHANGED <<cmVars, genVars, directionCall, imVars>>
    \/ \E input \in {Idle, Steer} : Visible(input) /\ UNCHANGED <<cmVars, genVars, directionCall, imVars>>
    \/ EngineStartFalling /\ UNCHANGED <<cmVars, genVars, directionCall, imVars>>
    \/ \E ms \in PauseSteps : TimePasses(ms) /\ UNCHANGED <<cmVars, genVars, directionCall, imVars>>

SpecPause == InitPhysics /\ [][NextPause]_vars

\* the input events of the page and the engine's reads, in any order
NextInput ==
    \/ \E key \in Keys : KeyDown(key) /\ UNCHANGED <<cmVars, genVars, inputFrame>>
    \/ \E key \in Keys : KeyUp(key) /\ UNCHANGED <<cmVars, genVars, inputFrame>>
    \/ \E zone \in {"left", "centre", "right"} :
          TouchTap(zone) /\ UNCHANGED <<cmVars, genVars, inputFrame>>
    \/ TimerFires /\ UNCHANGED <<cmVars, genVars, inputFrame>>
    \/ \E hidden \in BOOLEAN :
          VisibilityChange(hidden) /\ UNCHANGED <<cmVars, genVars, inputFrame>>
    \/ GetInput /\ UNCHANGED <<cmVars, genVars, inputFrame>>
    \/ InputTimePasses /\ UNCHANGED <<cmVars, genVars, inputFrame>>

SpecInput == InitSteer /\ [][NextInput]_vars

\* the ChunkManager asked for the path direction before each of its updates
NextDirection ==
    \/ Initialize(AllOk(InitialChunks(cmVersion)))
    \/ \E pos \in DirectionPositions : GetPathDirectionAtPosition(pos)

InitDirection == Init /\ genVariant = "current" /\ mpVersion = "auto"

SpecDirection == InitDirection /\ [][NextDirection]_vars

\* the pushes a caller gives the marble: up, down, sideways and backward,
\* each past the speed limits
SpeedImpulses == {<<0, 12000, 0>>, <<0, -12000, 0>>, <<5000, 0, 0>>, <<-3000, 0, 7000>>}

\* a MarblePhysics pushed about by impulses and path collisions between its updates
NextSpeed ==
    \/ \E p \in (IF mp.marble THEN {mp.position} ELSE MarbleStarts) :
          PhysicsInitialize(p) /\ UNCHANGED <<cmVars, genVars, appVars>>
    \/ \E dt \in DeltaTimes, input \in Inputs :
          PhysicsUpdate(dt, input) /\ UNCHANGED <<cmVars, genVars, appVars>>
    \/ \E i \in SpeedImpulses : AddImpulse(i) /\ UNCHANGED <<cmVars, genVars, appVars>>
    \/ \E n \in {<<0, 1, 0>>, <<1, 0, 0>>} :
          HandlePathCollision(n, 1000) /\ UNCHANGED <<cmVars, genVars, appVars>>
    \/ \E h \in SurfaceHeights :
          SetPathSurfaceHeight(h) /\ UNCHANGED <<cmVars, genVars, appVars>>

SpecSpeed == InitPhysics /\ [][NextSpeed]_vars

-----------------------------------------------------------------------------
(* Claims *)

\* C1 (streaming bound): once initialize() has run, whenever update() has
\* returned the number of resident chunks is at most maxActiveChunks
\* (10 in the current ChunkManager, 5 in the earlier one).
C1_StreamingBound ==
    lastOp \in {"initialize", "update"}
        => Len(activeChunks) <= (IF cmVersion = "current" THEN 10 ELSE 5)

\* the memory cap had to act: chunks were generated that are neither
\* resident nor out of unload range, and the count sits at the cap
C1_Witness ==
    /\ lastOp = "update"
    /\ Len(activeChunks) = MaxActive(cmVersion)
    /\ \E i \in 1..Len(generated) :
          /\ ~IsResident(activeChunks, generated[i].id)
          /\ ~(DistSq(marblePosition, generated[i].startPosition)
                 > UnloadDistance(cmVersion) * UnloadDistance(cmVersion))

\* C2 (no starvation): in a forward run of the current ChunkManager, after
\* every tick the marble is on resident path and the resident path reaches
\* at least chunkLoadDistance minus one generation batch ahead of it.
C2_NoStarvation ==
    lastOp = "update"
        => ResidentAhead(activeChunks, marbleArc)
              >= chunkLoadDistance - chunksPerLoad * chunkLength

\* C3 (continuity): of two chunks generated one after the other, the second
\* starts exactly where the first ends.
C3_Continuity ==
    \A i \in 1..(Len(generated) - 1) :
        generated[i + 1].startPosition = generated[i].endPosition

\* C4 (determinism): two generators constructed with the same seed value
\* (0 included) return the same chunks, call for call: the same points and
\* the same segment partitions.
C4_Determinism ==
    (gens[1].constructed /\ gens[2].constructed /\ seedArg[1] = seedArg[2])
        => \A i \in 1..Min(Len(out[1]), Len(out[2])) : out[1][i] = out[2][i]

\* C5 (own random stream): the chunks a generator returns are those it
\* returns when no other generator is constructed or used in between.
C5_OwnStream ==
    \A g \in GenIds : out[g] = soloOut[g]

\* where resetToCheckpoint puts the marble: the checkpoint, raised to the safe height
RaisedCheckpoint ==
    <<mp.lastSafePosition[1], Max(mp.lastSafePosition[2], safeHeight), mp.lastSafePosition[3]>>

\* an update began on a falling marble whose fall had lasted longer than the timeout
TimedOutUpdate ==
    /\ mpOp.name = "update"
    /\ pre.mp.marble
    /\ pre.mp.isFalling
    /\ pre.fallTime > fallTimeout

\* C6 (fall and recover, as claimed): one update of a falling marble whose
\* fall is older than the timeout leaves it not falling, with velocity and
\* angular velocity zero, at exactly lastSafePosition in all three coordinates.
C6_FallAndRecover ==
    TimedOutUpdate
        => /\ ~mp.isFalling
           /\ mp.velocity = Zero3
           /\ mp.angularVelocity = Zero3
           /\ mp.position = mp.lastSafePosition

\* C6 (amended): one update of a falling marble whose fall is older than the
\* timeout leaves it not falling, with velocity and angular velocity zero, at
\* lastSafePosition in x and z and at the height max(lastSafePosition.y, 2).
C6_FallAndRecoverAtSafeHeight ==
    TimedOutUpdate
        => /\ ~mp.isFalling
           /\ mp.velocity = Zero3
           /\ mp.angularVelocity = Zero3
           /\ mp.position = RaisedCheckpoint

\* a rolling, spinning marble fell, timed out and was put back above a
\* checkpoint lower than the safe height
C6_Witness ==
    /\ TimedOutUpdate
    /\ pre.mp.angularVelocity # Zero3
    /\ pre.mp.position # mp.position
    /\ mp.lastSafePosition[2] < safeHeight
    /\ ~mp.isFalling

\* C7 (only exit from Falling, as claimed): whenever an operation on an
\* attached marble clears isFalling, the marble is at lastSafePosition.
C7_OnlyExitIsCheckpoint ==
    (mp.marble /\ pre.isFalling /\ ~mp.isFalling)
        => /\ mpOp.name \in {"update", "resetToCheckpoint"}
           /\ mp.position = mp.lastSafePosition

\* C7 (amended): isFalling is cleared only by resetToCheckpoint (called
\* directly or by update), which puts the marble at lastSafePosition raised
\* to the height 2 at least, and by reset and initialize, which leave the
\* marble where it is; no other operation clears it.
C7_ExitsFromFalling ==
    (mp.marble /\ pre.isFalling /\ ~mp.isFalling)
        => \/ /\ mpOp.name \in {"update", "resetToCheckpoint"}
              /\ mp.position = RaisedCheckpoint
           \/ /\ mpOp.name \in {"reset", "initialize"}
              /\ pre.mp.marble => mp.position = pre.mp.position

\* reset cleared isFalling on a marble that is not at its checkpoint
C7_Witness ==
    /\ mp.marble
    /\ pre.isFalling
    /\ ~mp.isFalling
    /\ mpOp.name = "reset"
    /\ pre.mp.marble
    /\ mp.position # RaisedCheckpoint

\* C8 (falling step only): an update of a falling marble changes neither
\* lastSafePosition nor the checkpoint timer, and either recovers the marble
\* or only adds the doubled gravity to the vertical velocity and moves the
\* marble by the velocity: no jump, no input force, no ground resolution.
C8_FallingStepOnly ==
    (mpOp.name = "update" /\ pre.mp.marble /\ pre.mp.isFalling)
        => /\ mp.lastSafePosition = pre.mp.lastSafePosition
           /\ mp.checkpointUpdateTimer = pre.mp.checkpointUpdateTimer
           /\ \/ /\ ~mp.isFalling
                 /\ mp.velocity = Zero3
                 /\ mp.jumpCooldown = 0
              \/ /\ mp.isFalling
                 /\ mp.velocity = <<pre.mp.velocity[1],
                                    pre.mp.velocity[2] - 2 * gravity * mpOp.dt,
                                    pre.mp.velocity[3]>>
                 /\ mp.position = V3Add(pre.mp.position, V3Scale(mp.velocity, mpOp.dt))
                 /\ mp.jumpCooldown = pre.mp.jumpCooldown
                 /\ mp.canJump = pre.mp.canJump

\* a grounded marble with its cooldown over was falling, the input asked for
\* a jump and steered, and the marble ended below the supplied surface
C8_Witness ==
    /\ mpOp.name = "update"
    /\ pre.mp.marble
    /\ pre.mp.isFalling
    /\ mp.isFalling
    /\ mpOp.input.jump
    /\ mpOp.input.active
    /\ pre.mp.jumpCooldown <= 0
    /\ pre.mp.position[2] - marbleRadius <= pre.mp.pathSurfaceHeight + 1000
    /\ mp.position[2] - marbleRadius < mp.pathSurfaceHeight
    /\ mp.pathSurfaceHeight > validPathFloor

\* C9 (on or above the surface): after every update of a rolling marble the
\* marble bottom is at or above the supplied surface height, and a marble
\* of the direct-input version at rest exactly on the surface, given no
\* input, is still exactly on the surface with vertical velocity 0.
C9_StaysOnSurface ==
    (mpOp.name = "update" /\ pre.mp.marble /\ ~pre.mp.isFalling)
        => /\ mp.position[2] - marbleRadius >= mp.pathSurfaceHeight
           /\ (/\ mpVersion = "direct"
               /\ pre.mp.position[2] - marbleRadius = pre.mp.pathSurfaceHeight
               /\ pre.mp.velocity = Zero3
               /\ mpOp.input = Idle)
                  => /\ mp.position[2] - marbleRadius = mp.pathSurfaceHeight
                     /\ mp.velocity[2] = 0

\* the states handleGroundCollision may be applied in: the marble as it is,
\* and as a rolling update has it when it reaches its ground step
GroundStepStates ==
    {mp} \cup {Integrated(mpVersion, mp, dt, input) : dt \in DeltaTimes, input \in Inputs}

\* C10 (ground snap idempotence): handleGroundCollision applied twice in a
\* row leaves the marble at the height the first application left it at.
C10_GroundSnapIdempotent ==
    mp.marble
        => \A s \in GroundStepStates :
              handleGroundCollision(handleGroundCollision(s)).position[2]
                  = handleGroundCollision(s).position[2]

\* a rolling update brings the marble, moving down, below the surface, so
\* that the first application moves it and bounces it
C10_Witness ==
    /\ mp.marble
    /\ ~mp.isFalling
    /\ \E s \in GroundStepStates :
          /\ s # mp
          /\ s.position[2] - marbleRadius < s.pathSurfaceHeight
          /\ s.velocity[2] < 0
          /\ handleGroundCollision(s).position[2] # s.position[2]
          /\ handleGroundCollision(s).velocity[2] > 0

\* the point indices of all segments, one segment after the other
RECURSIVE Concatenation(_)
Concatenation(segments) ==
    IF Len(segments) = 0 THEN <<>>
    ELSE Head(segments) \o Concatenation(Tail(segments))

\* C11 (segment coverage): when the gap-enabled createPathWithGaps returns,
\* whatever the draws were, its segments taken one after the other list
\* points of the chunk in their original order, none twice, and every
\* segment, the first and the last included, has more than 3 points.
C11_SegmentCoverage ==
    gapWalk.returned
        => LET all == Concatenation(gapWalk.segments)
           IN /\ \A k \in 1..Len(all) : all[k] \in 0..segmentCount
              /\ \A k \in 1..(Len(all) - 1) : all[k] < all[k + 1]
              /\ \A n \in 1..Len(gapWalk.segments) : Len(gapWalk.segments[n]) > 3

\* a chunk of the cosmic biome came back in several segments: the first
\* was closed by the earliest gap possible, the last begins after the
\* latest and widest gap possible
C11_Witness ==
    /\ gapWalk.returned
    /\ Len(gapWalk.segments) >= 3
    /\ Len(gapWalk.segments[1]) = 5
    /\ Head(gapWalk.segments[Len(gapWalk.segments)]) = segmentCount - 5

\* C12 (generation failure is absorbed): a generateNextChunk call in which
\* generateChunk or the loading throws leaves every resident chunk as it
\* was, and initialize() goes on after it: when it returns, the chunks of
\* all its other calls are resident.
C12_FailureAbsorbed ==
    /\ \A o \in Outcomes(cmVersion) \ {"ok"} :
          generateNextChunk(cmVersion, CMState, o).activeChunks = activeChunks
    /\ lastOp = "initialize"
          => /\ nextChunkId = InitialChunks(cmVersion)
             /\ \A k \in 1..Len(lastOutcomes) :
                   IsResident(activeChunks, k - 1) <=> lastOutcomes[k] = "ok"

\* update() ran into a failure on its first generateNextChunk call, loaded
\* the chunks of the calls after it and returned with chunks resident that
\* were there before
C12_Witness ==
    /\ lastOp = "update"
    /\ Len(lastOutcomes) > 1
    /\ lastOutcomes[1] # "ok"
    /\ IsResident(activeChunks, nextChunkId - 1)
    /\ ~IsResident(activeChunks, nextChunkId - Len(lastOutcomes))
    /\ IsResident(activeChunks, nextChunkId - Len(lastOutcomes) - 1)

\* C13 (no orphaned scene resources): after initialize, update and cleanup
\* calls, with or without failures, every path mesh and terrain mesh in the
\* scene belongs to a resident chunk.
C13_NoOrphans ==
    \A mesh \in scene : IsResident(activeChunks, mesh[1])

\* C14 (backward unloading only behind the marble): with the marble on the
\* path, every chunk the backward check of update unloads lies behind the
\* marble in travel order; a chunk ahead of the marble is never unloaded
\* by it.
C14_UnloadsOnlyBehind ==
    initialized
        => LET pos == PathPositionAt(generated, marbleArc)
               kept == checkBackwardChunkUnloading(cmVersion, CMState, pos).activeChunks
           IN \A i \in 1..Len(activeChunks) :
                 ~IsResident(kept, activeChunks[i].id)
                     => activeChunks[i].id < ChunkIndexAt(marbleArc)

C16_NeverEmpty ==
    initialized
        => /\ Len(activeChunks) > 0
           /\ getPathAtPosition(activeChunks, marblePosition) # 0

C18_MonotonicDifficulty ==
    lone.gen.constructed
        => /\ lone.gen.currentDistance = 200 * lone.calls
           /\ lone.gen.difficulty = Min(lone.gen.currentDistance, 10000)
           /\ lone.gen.difficulty >= 0
           /\ lone.gen.difficulty <= 10000
           /\ lone.calls > 0 => lone.gen.difficulty >= lone.before.difficulty
           /\ lone.calls >= 50 => lone.gen.difficulty = 10000

\* the 50th call brought the difficulty from below 1 to 1, and calls went on
C18_Witness ==
    /\ lone.calls = 51
    /\ lone.gen.difficulty = difficultyDistance
    /\ lone.before.difficulty = difficultyDistance
    /\ lone.before.currentDistance = 50 * chunkLength

\* C19 (chunk shape): the chunk generateChunk(id) returns has exactly 51
\* points, carries the id it was asked for, starts at its first point and
\* ends at its last, and is the same chunk whatever id is passed, the id
\* field apart.
C19_ChunkShape ==
    lone.calls > 0
        => LET points == PointRun(genVariant, lone.before).points
           IN /\ Len(points) = 51
              /\ lone.chunk.pointCount = 51
              /\ lone.chunk.id = lone.chunkId
              /\ lone.chunk.startPosition = points[1]
              /\ lone.chunk.endPosition = points[51]
              /\ \A other \in {0, MaxLoneChunks} :
                    generateChunk(genVariant, lone.before, other, lone.rndBefore).chunk
                        = [lone.chunk EXCEPT !.id = other]

\* a later chunk of the gap-enabled generator, asked for under an id that is
\* not its place in the run
C19_Witness ==
    /\ genVariant = "gap"
    /\ lone.calls = 3
    /\ lone.chunkId = MaxLoneChunks
    /\ lone.chunk.id = MaxLoneChunks
    /\ lone.chunk.startPosition # lone.chunk.endPosition

\* C20 (uninitialized marble): update(dt, input) on a MarblePhysics that
\* initialize has not been called on changes nothing: not the velocity, the
\* falling flag, the jump cooldown, the checkpoint or the checkpoint timer,
\* nor any other field.
C20_UninitializedUpdate ==
    (mpOp.name = "update" /\ ~pre.mp.marble)
        => /\ mp.velocity = pre.mp.velocity
           /\ mp.isFalling = pre.mp.isFalling
           /\ mp.jumpCooldown = pre.mp.jumpCooldown
           /\ mp.lastSafePosition = pre.mp.lastSafePosition
           /\ mp.checkpointUpdateTimer = pre.mp.checkpointUpdateTimer
           /\ mp = pre.mp

\* update with a jump held, on an object never initialized that was given an
\* impulse and whose fall, started by startFalling, has outlasted the timeout
C20_Witness ==
    /\ mpOp.name = "update"
    /\ mpOp.input.jump
    /\ ~pre.mp.marble
    /\ pre.mp.isFalling
    /\ pre.fallTime > fallTimeout
    /\ pre.mp.velocity # <<0, 0, 0>>

\* C21 (chunk ids): across initialize and update calls, with failed
\* generations and evictions, the ids generateNextChunk asks chunks for are
\* the counter's values in strictly increasing order, so no id is asked for
\* twice and the id of an unloaded chunk is never used again; the resident
\* chunks have ids that were asked for, each once.
C21_UniqueIds ==
    /\ \A i \in 1..Len(requested) : \A j \in 1..Len(requested) :
          i < j => requested[i] < requested[j]
    /\ \A i \in 1..Len(requested) : requested[i] = i - 1
    /\ \A i \in 1..Len(activeChunks) :
          /\ \E k \in 1..Len(requested) : requested[k] = activeChunks[i].id
          /\ \A j \in 1..Len(activeChunks) : activeChunks[j].id = activeChunks[i].id => j = i
    /\ \A i \in 1..Len(generated) : \A j \in 1..Len(generated) :
          generated[i].id = generated[j].id => i = j

\* an update asked for chunks after a generation had failed and while a
\* chunk generated earlier is no longer resident
C21_Witness ==
    /\ lastOp = "update"
    /\ faults > 0
    /\ nextChunkId > beforeOp.nextChunkId
    /\ \E i \in 1..Len(generated) : ~IsResident(activeChunks, generated[i].id)
    /\ Len(requested) > Len(generated)

\* C22 (no gaps for chill gameplay): every chunk of the generator for chill
\* gameplay has exactly one segment, and it holds all 51 points of the chunk
\* in order (points are named by their index, from 0).
C22_SingleSegment ==
    (genVariant = "current" /\ lone.calls > 0)
        => /\ Len(lone.chunk.segments) = 1
           /\ Len(lone.chunk.segments[1]) = 51
           /\ \A k \in 1..51 : lone.chunk.segments[1][k] = k - 1
           /\ lone.chunk.meshSegments = lone.chunk.segments

\* a later chunk of the generator for chill gameplay
C22_Witness ==
    /\ genVariant = "current"
    /\ lone.calls = 2
    /\ lone.chunk.pointCount = 51
    /\ Len(lone.chunk.segments) = 1

\* C23 (forward check): update asks for new chunks exactly when a chunk is
\* resident and the end of the resident chunk whose end is furthest from
\* the marble is nearer than chunkLoadDistance (600, earlier 400), which is
\* to say that every resident chunk's end is; it then asks for exactly 3
\* chunks (earlier 1), and for none otherwise.
C23_ForwardCheck ==
    lastOp = "update"
        => LET loadDistance == IF cmVersion = "current" THEN 600 ELSE 400
               near == /\ Len(beforeOp.ids) > 0
                       /\ \A k \in 1..Len(beforeOp.ids) :
                             DistSq(marblePosition, ChunkOf(beforeOp.ids[k]).endPosition)
                                 < loadDistance * loadDistance
               asked == nextChunkId - beforeOp.nextChunkId
           IN /\ near => asked = (IF cmVersion = "current" THEN 3 ELSE 1)
              /\ ~near => asked = 0
              /\ Len(requested) = nextChunkId

\* an update of the current manager asked for its three chunks while the
\* end of a resident chunk was beyond half the load distance
C23_Witness ==
    /\ lastOp = "update"
    /\ cmVersion = "current"
    /\ nextChunkId = beforeOp.nextChunkId + 3
    /\ \E k \in 1..Len(beforeOp.ids) :
          DistSq(marblePosition, ChunkOf(beforeOp.ids[k]).endPosition) > 300 * 300

\* C24 (memory cap): when update comes to enforceMemoryLimits with no more
\* than maxActiveChunks (10, earlier 5) chunks resident, nothing is unloaded;
\* with more, chunks are unloaded until exactly maxActiveChunks are left,
\* the others staying in their order, and each one unloaded started at
\* least as far from the world origin as every chunk that stays.
C24_MemoryCap ==
    lastOp = "update"
        => LET cap == IF cmVersion = "current" THEN 10 ELSE 5
               kept == IdsOf(activeChunks)
               evicted == {beforeCap[k] : k \in 1..Len(beforeCap)} \ ChunkIds(activeChunks)
           IN /\ kept = SelectSeq(beforeCap, LAMBDA id : id \notin evicted)
              /\ Len(beforeCap) <= cap => evicted = {}
              /\ Len(beforeCap) > cap => Len(kept) = cap
              /\ \A e \in evicted : \A k \in 1..Len(kept) :
                    LengthSq(ChunkOf(e).startPosition)
                        >= LengthSq(ChunkOf(kept[k]).startPosition)

\* the cap phase found at least two chunks too many
C24_Witness ==
    /\ lastOp = "update"
    /\ Len(beforeCap) >= MaxActive(cmVersion) + 2
    /\ Len(activeChunks) = MaxActive(cmVersion)

C26_NewChunksStay ==
    lastOp = "update"
        => \A id \in beforeOp.nextChunkId..(nextChunkId - 1) :
              (\E i \in 1..Len(generated) : generated[i].id = id)
                  => IsResident(activeChunks, id)

\* C27 (self-healing after a failed generation): a generateNextChunk call
\* that fails, in generateChunk or in the loading, does not move the
\* generator's cursor: the distance cursor stands at 200 for every chunk
\* that was loaded, so the next chunk generated continues where the last
\* loaded one ends and no stretch of path is missing.
C27_SelfHealing ==
    pathGenerator.currentDistance = 200 * (Len(requested) - faults)

\* C28 (a fall ends): once the marble is falling, an update called when more
\* than the timeout (3000 ms) has passed since the startFalling() that
\* began the fall resets it to the checkpoint, also when startFalling() was
\* called again during the fall.
C28_FallEnds ==
    (/\ mpOp.name = "update"
     /\ pre.mp.marble
     /\ pre.isFalling
     /\ pre.fallAge > 3000)
        => ~mp.isFalling

\* C29 (falling starts only in startFalling): whatever is called, and for
\* any number of update ticks, a marble that was not falling is falling
\* afterwards only if the call was startFalling(); the gap sentinel handed
\* over by setPathSurfaceHeight or left by checkPathCollisionWithRaycasting
\* does not set isFalling.
C29_OnlyStartFalling ==
    (mp.isFalling /\ ~pre.isFalling) => mpOp.name = "startFalling"

\* a rolling marble over a gap, the sentinel being the supplied surface
\* height, has dropped below the path's level in an update and is still
\* not falling
C29_Witness ==
    /\ mpVersion = "auto"
    /\ mpOp.name = "update"
    /\ ~pre.isFalling
    /\ pre.mp.pathSurfaceHeight = gapSentinel
    /\ mp.position[2] < pre.mp.position[2]
    /\ mp.position[2] - marbleRadius < 0
    /\ ~mp.isFalling

\* C30 (jumping): an update starts a jump only when the input asks for one,
\* the marble bottom is no more than 0.1 above the supplied surface height
\* and the cooldown, the tick's delta time taken off, has run out; the jump
\* sets the vertical velocity to jumpForce (0.3) and the cooldown to 0.5 s;
\* and between two jumps with no reset or resetToCheckpoint in between,
\* rolling updates have taken at least 0.5 s of delta time.
C30_Jumping ==
    /\ StartedJump(mpOp.name, mp) /\ mpOp.name = "update" /\ pre.mp.marble /\ ~pre.isFalling
          => /\ mpOp.input.jump
             /\ pre.mp.position[2] - 3000 <= pre.mp.pathSurfaceHeight + 1000
             /\ pre.mp.jumpCooldown <= 0 \/ pre.mp.jumpCooldown - mpOp.dt <= 0
             /\ handleJumping(pre.mp, mpOp.input, mpOp.dt).velocity[2] = 3000
             /\ mp.jumpCooldown = 30
             /\ ~mp.canJump
    /\ jumpGap = -1 \/ jumpGap >= 30

\* a second jump, as soon as the cooldown allowed it, the marble held to a
\* raised surface meanwhile
C30_Witness ==
    /\ mpOp.name = "update"
    /\ mp.jumpCooldown = jumpCooldownTime
    /\ jumpGap >= jumpCooldownTime
    /\ jumpGap < jumpCooldownTime + MaxDt60 + 12

RollingUpdated ==
    /\ mpOp.name = "update"
    /\ pre.mp.marble
    /\ ~pre.isFalling

\* C32 (speed clamp): after every update of a rolling marble the horizontal
\* speed is at most maxSpeed (0.4) and the vertical speed at most the
\* terminal velocity (1.0) in size, whatever the input, the delta time and
\* the velocity before, impulses and path collisions included.
C32_SpeedClamp ==
    RollingUpdated
        => /\ mp.velocity[1] * mp.velocity[1] + mp.velocity[3] * mp.velocity[3]
                  <= 4000 * 4000
           /\ mp.velocity[2] <= 10000
           /\ mp.velocity[2] >= -10000

\* an update of a marble pushed past both limits, which leaves it at the
\* terminal velocity and within the horizontal limit
C32_Witness ==
    /\ RollingUpdated
    /\ V3LengthSq(<<pre.mp.velocity[1], 0, pre.mp.velocity[3]>>) > 2 * maxSpeed * maxSpeed
    /\ pre.mp.velocity[2] > maxVerticalSpeed + 4 * gravity
    /\ mp.velocity[2] = maxVerticalSpeed
    /\ V3LengthSq(<<mp.velocity[1], 0, mp.velocity[3]>>) <= maxSpeed * maxSpeed
    /\ V3LengthSq(<<mp.velocity[1], 0, mp.velocity[3]>>) > (maxSpeed - 10) * (maxSpeed - 10)

\* the velocity as update hands it to applyFriction, in the last update
BeforeFriction ==
    applyGravity(applyInputForces(mpVersion,
                                  handleJumping(pre.mp, mpOp.input, mpOp.dt),
                                  mpOp.input, mpOp.dt),
                 mpOp.dt)

\* the ground branch of applyFriction: friction on the horizontal velocity,
\* 0.95 on the vertical
GroundFriction(s) ==
    <<Times(s.velocity[1], friction(mpVersion), 1000),
      Times(s.velocity[2], 95, 100),
      Times(s.velocity[3], friction(mpVersion), 1000)>>

\* C33 (grounded test consistent within one tick): in an update of a rolling
\* marble, applyFriction applies the ground friction and bounce damping when
\* the marble bottom is no more than 0.1 above the supplied surface height
\* (when isOnGround() and handleJumping take it as grounded), and the air
\* resistance when it is not, whatever the supplied surface height.
C33_GroundedConsistent ==
    RollingUpdated
        => applyFriction(mpVersion, BeforeFriction).velocity
              = IF isOnGround(pre.mp)
                THEN GroundFriction(BeforeFriction)
                ELSE Times3(BeforeFriction.velocity, airResistance, 1000)

\* the last operation was an update that ended a fall by the timeout alone:
\* with no fall time the marble would have fallen on
TimedOut ==
    /\ mpOp.name = "update"
    /\ pre.mp.marble
    /\ pre.isFalling
    /\ ~mp.isFalling
    /\ handleFalling(mpVersion, pre.mp, mpOp.dt, pre.mp.fallStartTime).isFalling

\* C34 (paused time is not simulated time): a frame ends a fall by the
\* timeout only when more than 3000 ms have passed since startFalling() with
\* the engine running; the time the engine was paused does not count.
C34_PausedTimeNotCounted ==
    TimedOut => pre.fallTime - pausedFall > 3000

\* C35 (collision segments are the rendered segments): the segments stored
\* on a chunk for collision detection are the partition of the points that
\* the chunk's path meshes were built from, whatever the gap decisions.
C35_SegmentsAreMeshSegments ==
    \A g \in GenIds : \A i \in 1..Len(out[g]) :
        out[g][i].segments = out[g][i].meshSegments

\* the index the gap after segment k of the returned segments starts at, and
\* the number of points it removes
GapStart(k) == gapWalk.segments[k][Len(gapWalk.segments[k])] + 1
GapLength(k) == gapWalk.segments[k + 1][1] - GapStart(k)

\* C36 (gap placement): in the segments createPathWithGaps returns, no gap
\* starts at an index below 5 or above totalPoints - 10, and every gap
\* removes exactly getGapSize consecutive points, the point it starts at
\* counted: 2, and 4 in the cosmic biome.
C36_GapPlacement ==
    gapWalk.returned
        => \A k \in 1..(Len(gapWalk.segments) - 1) :
              /\ GapStart(k) >= 5
              /\ GapStart(k) <= (segmentCount + 1) - 10
              /\ GapLength(k)
                    = getGapSize(getBiomeAtDistance(
                          gapWalk.currentDistance
                              + (GapStart(k) * chunkLength) \div segmentCount))
              /\ GapLength(k) = IF gapWalk.currentDistance = 25000 THEN 4 ELSE 2

\* a chunk of the cosmic biome with a gap at the first and one at the last
\* index that may have one
C36_Witness ==
    /\ gapWalk.returned
    /\ gapWalk.currentDistance = 25000
    /\ Len(gapWalk.segments) = 3
    /\ GapStart(1) = 5
    /\ GapStart(2) = segmentCount + 1 - 10
    /\ GapLength(1) = 4
    /\ GapLength(2) = 4

\* twice the distance, squared, from the last update's marble position to
\* the midpoint of the chunk with this id
MidpointDistance(id) ==
    DistSq(VScale(marblePosition, 2),
           VAdd(ChunkOf(id).startPosition, ChunkOf(id).endPosition))

\* C37 (getPathAtPosition): called in update() for the marble position, it
\* returns null exactly when no chunk is resident, and otherwise a resident
\* chunk whose midpoint is at the least distance from the position.
C37_NearestChunk ==
    lastOp = "update"
        => /\ marbleChunk = -1 <=> Len(beforeCap) = 0
           /\ marbleChunk # -1
                 => /\ \E i \in 1..Len(beforeCap) : beforeCap[i] = marbleChunk
                    /\ \A i \in 1..Len(beforeCap) :
                          MidpointDistance(marbleChunk) <= MidpointDistance(beforeCap[i])

\* the nearest of several resident chunks is not the first of them, and
\* strictly nearer than every other
C37_Witness ==
    /\ lastOp = "update"
    /\ Len(beforeCap) >= 3
    /\ marbleChunk # -1
    /\ marbleChunk # beforeCap[1]
    /\ \A i \in 1..Len(beforeCap) :
          beforeCap[i] # marbleChunk
              => MidpointDistance(marbleChunk) < MidpointDistance(beforeCap[i])

\* update() came to its memory-cap phase with no chunk resident
C37_NullCase ==
    /\ lastOp = "update"
    /\ marbleChunk = -1
    /\ Len(beforeCap) = 0

\* the points of the chunk the last getPathDirectionAtPosition call went by
AskedPoints == ChunkPoints(ChunkOf(directionCall.chunk))

\* C38 (getPathDirectionAtPosition): the call returns the default (0, 0, -1)
\* when no chunk is found or the nearest chunk has fewer than 2 points, and
\* otherwise the direction from a point to the point after it in travel
\* order: from the nearest point to the next, and when the nearest point is
\* the last one, from the point before it to it.
C38_TravelDirection ==
    directionCall.called
        => IF directionCall.chunk = -1 \/ ChunkOf(directionCall.chunk).pointCount < 2
           THEN directionCall.direction = <<0, -1>>
           ELSE LET from == IF directionCall.closest < Len(AskedPoints) THEN directionCall.closest
                            ELSE directionCall.closest - 1
                IN /\ directionCall.closest \in 1..Len(AskedPoints)
                   /\ AskedPoints[from + 1] # AskedPoints[from]
                   /\ \E k \in 1..(chunkLength \div segmentCount) :
                         VAdd(AskedPoints[from], VScale(directionCall.direction, k))
                             = AskedPoints[from + 1]

\* the direction was asked for a position whose nearest point is the last
\* point of a chunk that runs along the x axis
C38_Witness ==
    /\ directionCall.called
    /\ directionCall.chunk # -1
    /\ directionCall.closest = Len(AskedPoints)
    /\ directionCall.direction[1] # 0

\* C39 (a steering tap stays active for its hold time): a getInput() call
\* less than 600 ms after the last left or right tap, the page not hidden in
\* between, reports active steering in that tap's direction, whatever
\* timeouts of earlier taps have run since.
C39_TapHeld ==
    (/\ imOp.name = "getInput"
     /\ imOp.tapTime >= 0
     /\ ~imOp.cleared
     /\ now - imOp.tapTime < 600)
        => /\ imOp.input.active
           /\ imOp.input.x = imOp.tapX * 5

\* C40 (touch jump is edge-triggered and debounced): getInput() returns
\* jump = true exactly when a centre tap was accepted since the last
\* getInput() (or the space bar is down), and leaves the flag cleared, so
\* that the next call returns false again; and a centre tap 200 ms or less
\* after the last accepted one is not accepted: it leaves the flag and
\* lastJumpTime as they are.
C40_JumpOncePerTap ==
    /\ imOp.name = "getInput"
          => /\ imOp.input.jump <=> (imOp.readAccepted > 0 \/ " " \in im.keys)
             /\ ~im.jumpPressed
    /\ (imOp.name = "jumpTap" /\ imOp.tapGap >= 0 /\ imOp.tapGap <= 200)
          => ~imOp.tapAccepted
    /\ (imOp.name = "jumpTap" /\ (imOp.tapGap < 0 \/ imOp.tapGap > 200))
          => im.jumpPressed

\* a read that returns the jump of an accepted centre tap, the space bar up,
\* after a second tap 200 ms or less later was refused
C40_Witness ==
    /\ imOp.name = "getInput"
    /\ imOp.input.jump
    /\ " " \notin im.keys
    /\ imOp.readAccepted = 1
    /\ imOp.readRefused
    /\ now - imOp.lastAccept = jumpCooldown

====
